---- MODULE Spec2Model ----
(***************************************************************************)
(* ModelOutlineLoader (CESIUM_primitive_outline): the outline coordinate   *)
(* assignment of addOutline / matchAndStoreCoordinates and the buffer      *)
(* rebuilding of ModelOutlineLoader.outlinePrimitives.                     *)
(***************************************************************************)
EXTENDS Integers, Sequences, FiniteSets, TLC

(***************************************************************************)
(* Bounds of the model.                                                    *)
(***************************************************************************)
\* vertices 0 .. NumVertices-1 exist before outlining (accessor.count)
NumVertices == 5
\* triangles run through addOutline against one scope
MaxTriangles == 3
\* the history counter of retries stops counting here
RetryCap == 8

\* outlineCoordinates[k] of a slot never written (a hole of the JS array)
Undefined == -1

(***************************************************************************)
(* Small helpers.                                                          *)
(***************************************************************************)
Min(x, y) == IF x <= y THEN x ELSE y
Max(x, y) == IF x >= y THEN x ELSE y
B2N(b) == IF b THEN 1 ELSE 0
Pow2(k) == CASE k = 0 -> 1 [] k = 1 -> 2 [] k = 2 -> 4 [] k = 3 -> 8
             [] k = 4 -> 16 [] k = 5 -> 32 [] OTHER -> 64
Bit(m, k) == (m \div Pow2(k)) % 2
\* m1 & m2 on 6-bit masks
BitAnd(m1, m2) ==
  Bit(m1, 0) * Bit(m2, 0) + 2 * Bit(m1, 1) * Bit(m2, 1)
    + 4 * Bit(m1, 2) * Bit(m2, 2) + 8 * Bit(m1, 3) * Bit(m2, 3)
    + 16 * Bit(m1, 4) * Bit(m2, 4) + 32 * Bit(m1, 5) * Bit(m2, 5)

\* reading slot k of a sparse array
Get(arr, k) == IF k \in DOMAIN arr THEN arr[k] ELSE Undefined
\* arr[k] = v
Put(arr, k, v) == (k :> v) @@ arr

(***************************************************************************)
(* The edge set: compareEdge, the sorted edge array, isHighlighted.        *)
(***************************************************************************)
compareEdge(a, b) ==
  LET first == a[1] - b[1]
  IN  IF first = 0 THEN a[2] - b[2] ELSE first

\* edges.push([Math.min(a, b), Math.max(a, b)]) for each pair of the flat buffer
RECURSIVE EdgePairs(_)
EdgePairs(edgeIndices) ==
  IF Len(edgeIndices) < 2 THEN << >>
  ELSE << << Min(edgeIndices[1], edgeIndices[2]),
             Max(edgeIndices[1], edgeIndices[2]) >> >>
         \o EdgePairs(SubSeq(edgeIndices, 3, Len(edgeIndices)))

\* edges.sort(compareEdge)
RECURSIVE InsertEdge(_, _)
InsertEdge(sorted, e) ==
  IF sorted = << >> THEN << e >>
  ELSE IF compareEdge(e, Head(sorted)) < 0 THEN << e >> \o sorted
  ELSE << Head(sorted) >> \o InsertEdge(Tail(sorted), e)

RECURSIVE SortEdges(_)
SortEdges(es) ==
  IF es = << >> THEN << >>
  ELSE InsertEdge(SortEdges(Tail(es)), Head(es))

BuildEdges(edgeIndices) == SortEdges(EdgePairs(edgeIndices))

\* Core/binarySearch: index of the item, or a negative number
RECURSIVE binarySearch(_, _, _, _)
binarySearch(array, item, low, high) ==
  IF low > high THEN 0 - (high + 1) - 1
  ELSE LET i == (low + high) \div 2
           comparison == compareEdge(array[i + 1], item)
       IN  IF comparison < 0 THEN binarySearch(array, item, i + 1, high)
           ELSE IF comparison > 0 THEN binarySearch(array, item, low, i - 1)
           ELSE i

\* a plausible slip: the pair is looked up as given, not as (min, max)
isHighlightedAsGiven(es, i0, i1) ==
  binarySearch(es, << i0, i1 >>, 0, Len(es) - 1) >= 0

isHighlighted(es, i0, i1) ==
  binarySearch(es, << Min(i0, i1), Max(i0, i1) >>, 0, Len(es) - 1) >= 0

(***************************************************************************)
(* computeOrderMask, popcount0to63, matchAndStoreCoordinates.              *)
(***************************************************************************)
\* a plausible slip: the shifts of bca and cab change places
computeOrderMaskSwapped(outlineCoordinates, vertexIndex, a, b, c) ==
  LET startIndex == vertexIndex * 3
      first == Get(outlineCoordinates, startIndex)
      second == Get(outlineCoordinates, startIndex + 1)
      third == Get(outlineCoordinates, startIndex + 2)
  IN  IF first = Undefined THEN 63
      ELSE B2N(first = a /\ second = b /\ third = c)
           + 2 * B2N(first = a /\ second = c /\ third = b)
           + 4 * B2N(first = b /\ second = a /\ third = c)
           + 16 * B2N(first = b /\ second = c /\ third = a)
           + 8 * B2N(first = c /\ second = a /\ third = b)
           + 32 * B2N(first = c /\ second = b /\ third = a)

\* a plausible slip: a vertex without coordinates fits no ordering
computeOrderMaskUnsetNone(outlineCoordinates, vertexIndex, a, b, c) ==
  LET startIndex == vertexIndex * 3
      first == Get(outlineCoordinates, startIndex)
      second == Get(outlineCoordinates, startIndex + 1)
      third == Get(outlineCoordinates, startIndex + 2)
  IN  IF first = Undefined THEN 0
      ELSE B2N(first = a /\ second = b /\ third = c)
           + 2 * B2N(first = a /\ second = c /\ third = b)
           + 4 * B2N(first = b /\ second = a /\ third = c)
           + 8 * B2N(first = b /\ second = c /\ third = a)
           + 16 * B2N(first = c /\ second = a /\ third = b)
           + 32 * B2N(first = c /\ second = b /\ third = a)

computeOrderMask(outlineCoordinates, vertexIndex, a, b, c) ==
  LET startIndex == vertexIndex * 3
      first == Get(outlineCoordinates, startIndex)
      second == Get(outlineCoordinates, startIndex + 1)
      third == Get(outlineCoordinates, startIndex + 2)
  IN  IF first = Undefined THEN 63
      ELSE B2N(first = a /\ second = b /\ third = c)
           + 2 * B2N(first = a /\ second = c /\ third = b)
           + 4 * B2N(first = b /\ second = a /\ third = c)
           + 8 * B2N(first = b /\ second = c /\ third = a)
           + 16 * B2N(first = c /\ second = a /\ third = b)
           + 32 * B2N(first = c /\ second = b /\ third = a)

popcount0to63(value) ==
  Bit(value, 0) + Bit(value, 1) + Bit(value, 2)
    + Bit(value, 3) + Bit(value, 4) + Bit(value, 5)

\* the slots (a, b, c) of ordering k: 0 abc, 1 acb, 2 bac, 3 bca, 4 cab, 5 cba
OrderSlots(k) ==
  CASE k = 0 -> [a |-> 0, b |-> 1, c |-> 2]
    [] k = 1 -> [a |-> 0, b |-> 2, c |-> 1]
    [] k = 2 -> [a |-> 1, b |-> 0, c |-> 2]
    [] k = 3 -> [a |-> 2, b |-> 0, c |-> 1]
    [] k = 4 -> [a |-> 1, b |-> 2, c |-> 0]
    [] OTHER -> [a |-> 2, b |-> 1, c |-> 0]

\* a plausible slip: the chain tests the orderings from 5 down to 0
FirstOrderFromLast(workingOrders) ==
  IF Bit(workingOrders, 5) = 1 THEN 5
  ELSE IF Bit(workingOrders, 4) = 1 THEN 4
  ELSE IF Bit(workingOrders, 3) = 1 THEN 3
  ELSE IF Bit(workingOrders, 2) = 1 THEN 2
  ELSE IF Bit(workingOrders, 1) = 1 THEN 1
  ELSE IF Bit(workingOrders, 0) = 1 THEN 0
  ELSE -1

\* the first branch of the if / else if chain that workingOrders enters
FirstOrder(workingOrders) ==
  IF Bit(workingOrders, 0) = 1 THEN 0
  ELSE IF Bit(workingOrders, 1) = 1 THEN 1
  ELSE IF Bit(workingOrders, 2) = 1 THEN 2
  ELSE IF Bit(workingOrders, 3) = 1 THEN 3
  ELSE IF Bit(workingOrders, 4) = 1 THEN 4
  ELSE IF Bit(workingOrders, 5) = 1 THEN 5
  ELSE -1

\* a plausible slip: ties go to the earlier vertex
MostConstrainedEarliest(i0, i1, i2, i0Mask, i1Mask, i2Mask) ==
  LET i0Popcount == popcount0to63(i0Mask)
      i1Popcount == popcount0to63(i1Mask)
      i2Popcount == popcount0to63(i2Mask)
  IN  IF i0Popcount <= i1Popcount /\ i0Popcount <= i2Popcount THEN i0
      ELSE IF i1Popcount <= i2Popcount THEN i1
      ELSE i2

\* the vertex reported when no ordering works for all three vertices
MostConstrained(i0, i1, i2, i0Mask, i1Mask, i2Mask) ==
  LET i0Popcount == popcount0to63(i0Mask)
      i1Popcount == popcount0to63(i1Mask)
      i2Popcount == popcount0to63(i2Mask)
  IN  IF i0Popcount < i1Popcount /\ i0Popcount < i2Popcount THEN i0
      ELSE IF i1Popcount < i2Popcount THEN i1
      ELSE i2

\* a plausible slip: | for &
WorkingOrdersOr(i0Mask, i1Mask, i2Mask) ==
  LET or(m1, m2) == m1 + m2 - BitAnd(m1, m2)
  IN  or(or(i0Mask, i1Mask), i2Mask)

\* i0Mask & i1Mask & i2Mask
WorkingOrders(i0Mask, i1Mask, i2Mask) ==
  BitAnd(BitAnd(i0Mask, i1Mask), i2Mask)

\* a plausible slip: the third store is missing
StoreVertexTwoSlots(outlineCoordinates, vertexIndex, s, av, bv, cv) ==
  LET start == vertexIndex * 3
  IN  Put(Put(outlineCoordinates, start + s.a, av), start + s.b, bv)

\* outlineCoordinates[start + a] = av; [start + b] = bv; [start + c] = cv
StoreVertex(outlineCoordinates, vertexIndex, s, av, bv, cv) ==
  LET start == vertexIndex * 3
  IN  Put(Put(Put(outlineCoordinates, start + s.a, av), start + s.b, bv),
          start + s.c, cv)

\* the three stores of the branch that ordering k enters
StoreOrder(outlineCoordinates, i0, i1, i2, abc, k) ==
  LET s == OrderSlots(k)
  IN  StoreVertex(
        StoreVertex(
          StoreVertex(outlineCoordinates, i0, s, abc[1][1], abc[1][2], abc[1][3]),
          i1, s, abc[2][1], abc[2][2], abc[2][3]),
        i2, s, abc[3][1], abc[3][2], abc[3][3])

\* the function from its early returns on, the three masks being computed
MatchMasks(outlineCoordinates, i0, i1, i2, abc, i0Mask, i1Mask, i2Mask) ==
  IF i0Mask = 0 THEN [ret |-> i0, oc |-> outlineCoordinates]
  ELSE IF i1Mask = 0 THEN [ret |-> i1, oc |-> outlineCoordinates]
  ELSE IF i2Mask = 0 THEN [ret |-> i2, oc |-> outlineCoordinates]
  ELSE CHOOSE r \in
         { IF k < 0
             THEN [ret |-> MostConstrained(i0, i1, i2, i0Mask, i1Mask, i2Mask),
                   oc |-> outlineCoordinates]
             ELSE [ret |-> -1,
                   oc |-> StoreOrder(outlineCoordinates, i0, i1, i2, abc, k)] :
           k \in { FirstOrder(WorkingOrders(i0Mask, i1Mask, i2Mask)) } } : TRUE

\* the result: ret is the unmatchable vertex index or -1, oc the array afterwards
\* (each mask is computed once, as in the code)
matchAndStoreCoordinates(outlineCoordinates, i0, i1, i2, has01, has12, has20) ==
  LET a0 == B2N(has20)
      b0 == B2N(has01)
      c0 == 0
      a1 == 0
      b1 == B2N(has01)
      c1 == B2N(has12)
      a2 == B2N(has20)
      b2 == 0
      c2 == B2N(has12)
      abc == << << a0, b0, c0 >>, << a1, b1, c1 >>, << a2, b2, c2 >> >>
  IN  CHOOSE r \in
        { MatchMasks(outlineCoordinates, i0, i1, i2, abc, m[1], m[2], m[3]) :
          m \in { << computeOrderMask(outlineCoordinates, i0, a0, b0, c0),
                     computeOrderMask(outlineCoordinates, i1, a1, b1, c1),
                     computeOrderMask(outlineCoordinates, i2, a2, b2, c2) >> } } :
        TRUE

(***************************************************************************)
(* State.                                                                  *)
(***************************************************************************)
VARIABLES
  scopes,         \* the vertexNumberingScope objects, by creation order
  frame,          \* addOutline's locals for the primitive being outlined
  pc,             \* where the program is
  hist,           \* history: counters of the triangle being stored
  gltf,           \* model.gltf: accessors, bufferViews, buffers, primitives
  loadResources,  \* model._loadResources: buffers and the two queues
  run,            \* outlinePrimitives' locals: bufferViews and the loop index
  loaded,         \* history: gltf and loadResources as they were loaded
  models,         \* the models that share one context, with their cacheKey
  cache,          \* ModelOutlineLoader._outlinedModelResourceCache
  options,        \* the argument of new MapboxStyleImageryProvider(options)
  provider        \* the MapboxStyleImageryProvider under construction

vars ==
  << scopes, frame, pc, hist, gltf, loadResources, run, loaded, models, cache,
     options, provider >>

\* _outlinedModelResourceCache before parse defines it: entries maps a
\* cacheKey to the number of its entry in objects, 0 for undefined
NoCache == [defined |-> FALSE, entries |-> << >>, objects |-> << >>]

\* no MapboxStyleImageryProvider has been constructed
NoProvider == [constructed |-> FALSE, threw |-> FALSE, templateUrl |-> << >>]

\* the object literal of a fresh vertexNumberingScope
NewScope ==
  [vertexCopies |-> << >>, extraVertices |-> << >>,
   outlineCoordinates |-> << >>, accessors |-> << >>, primitives |-> << >>,
   createdOutlines |-> FALSE]

NoFrame ==
  [scope |-> 0, primitive |-> 0, numVertices |-> 0, edges |-> << >>, i |-> 0,
   idx |-> << 0, 0, 0 >>, has01 |-> FALSE, has12 |-> FALSE, has20 |-> FALSE,
   unmatchableVertexIndex |-> -1]

NoHist == [triangles |-> 0, retries |-> 0, pinned |-> 0, chainPinned |-> 0]

\* a model without a document
NoGltf == [accessors |-> << >>, bufferViews |-> << >>, buffers |-> << >>,
           primitives |-> << >>]

NoLoadResources ==
  [buffers |-> << >>, primitivesToOutline |-> << >>,
   vertexBuffersToCreate |-> << >>]

\* var bufferViews = []; var i
NoRun == [bufferViews |-> << >>, i |-> 0]

(***************************************************************************)
(* addOutline: one triangle, and one turn of its copy-and-retry loop.      *)
(***************************************************************************)
\* a plausible slip: the while loop is missing
ResolveOriginalNoLoop(original, numVertices, extraVertices) == original

\* while (original >= numVertices) original = extraVertices[original - numVertices]
RECURSIVE ResolveOriginal(_, _, _)
ResolveOriginal(original, numVertices, extraVertices) ==
  IF original >= numVertices
    THEN ResolveOriginal(extraVertices[original - numVertices + 1],
                         numVertices, extraVertices)
    ELSE original

\* a plausible slip: the chain always falls to its else
RewrittenPositionLast(idx, unmatchableVertexIndex) == 3

\* which of i0, i1, i2 the if / else if / else chain rewrites: 1, 2 or 3
RewrittenPosition(idx, unmatchableVertexIndex) ==
  IF unmatchableVertexIndex = idx[1] THEN 1
  ELSE IF unmatchableVertexIndex = idx[2] THEN 2
  ELSE 3

\* a plausible slip: the recorded copy is not looked up
CopyOfIgnored(vertexCopies, unmatchableVertexIndex) == Undefined

\* copy = vertexCopies[...] of the unmatchable vertex
CopyOf(vertexCopies, unmatchableVertexIndex) ==
  Get(vertexCopies, unmatchableVertexIndex)

\* a plausible slip: the local index is left as it was
RewriteIndexForgotten(idx, pos, copy) == idx

\* i0 = copy (or i1, or i2)
RewriteIndex(idx, pos, copy) == [idx EXCEPT ![pos] = copy]

\* lines 504-521: the flags of the triangle and the first attempt to store it
TryTriangle(scope, fr, t) ==
  LET has01 == isHighlighted(fr.edges, t[1], t[2])
      has12 == isHighlighted(fr.edges, t[2], t[3])
      has20 == isHighlighted(fr.edges, t[3], t[1])
      r == matchAndStoreCoordinates(scope.outlineCoordinates,
                                    t[1], t[2], t[3], has01, has12, has20)
  IN  [scope |-> [scope EXCEPT !.outlineCoordinates = r.oc],
       frame |-> [fr EXCEPT !.idx = t, !.has01 = has01, !.has12 = has12,
                            !.has20 = has20,
                            !.unmatchableVertexIndex = r.ret]]

\* lines 523-563: copy the unmatchable vertex, rewrite the triangle, try again
CopyAndRetry(scope, fr) ==
  LET u == fr.unmatchableVertexIndex
      found == CopyOf(scope.vertexCopies, u)
      copy == IF found = Undefined
                THEN fr.numVertices + Len(scope.extraVertices)
                ELSE found
      original == ResolveOriginal(u, fr.numVertices, scope.extraVertices)
      extraVertices == IF found = Undefined
                         THEN Append(scope.extraVertices, original)
                         ELSE scope.extraVertices
      vertexCopies == IF found = Undefined
                        THEN Put(scope.vertexCopies, u, copy)
                        ELSE scope.vertexCopies
      pos == RewrittenPosition(fr.idx, u)
      idx == RewriteIndex(fr.idx, pos, copy)
      r == matchAndStoreCoordinates(scope.outlineCoordinates,
                                    idx[1], idx[2], idx[3],
                                    fr.has01, fr.has12, fr.has20)
  IN  [scope |-> [scope EXCEPT !.vertexCopies = vertexCopies,
                               !.extraVertices = extraVertices,
                               !.outlineCoordinates = r.oc],
       frame |-> [fr EXCEPT !.idx = idx, !.unmatchableVertexIndex = r.ret],
       pos |-> pos, copy |-> copy]

(***************************************************************************)
(* History of the triangle being stored.                                   *)
(***************************************************************************)
Committed(oc, v) == (v * 3) \in DOMAIN oc

\* committed vertices on the copy chain v, vertexCopies[v], ...
RECURSIVE ChainPinned(_, _)
ChainPinned(scope, v) ==
  B2N(Committed(scope.outlineCoordinates, v))
    + (IF v \in DOMAIN scope.vertexCopies
         THEN ChainPinned(scope, scope.vertexCopies[v]) ELSE 0)

StartHist(scope, t, h) ==
  [triangles |-> h.triangles + 1, retries |-> 0,
   pinned |-> B2N(Committed(scope.outlineCoordinates, t[1]))
              + B2N(Committed(scope.outlineCoordinates, t[2]))
              + B2N(Committed(scope.outlineCoordinates, t[3])),
   chainPinned |-> ChainPinned(scope, t[1]) + ChainPinned(scope, t[2])
                   + ChainPinned(scope, t[3])]

(***************************************************************************)
(* The solver alone: any triangles, against one scope.                     *)
(***************************************************************************)
\* the triangles an index buffer may hold: every winding of every face of the
\* tetrahedron 0123, a face that reaches vertex 4, and a triangle that names
\* one vertex twice
Triangles ==
  { t \in (0 .. 3) \X (0 .. 3) \X (0 .. 3) :
      t[1] # t[2] /\ t[2] # t[3] /\ t[3] # t[1] }
    \cup { << 0, 3, 4 >>, << 0, 0, 1 >> }

\* the edge index buffers (flat, two indices per edge, in file order)
EdgeIndexLists ==
  { << >>,
    << 1, 2 >>,
    << 0, 1, 2, 0, 3, 1 >>,
    << 0, 1, 1, 2, 2, 0 >>,
    << 3, 0, 0, 4, 0, 1 >> }

SolverInit ==
  /\ scopes = << NewScope >>
  /\ models = << >>
  /\ cache = NoCache
  /\ options = << >>
  /\ provider = NoProvider
  /\ \E edgeIndices \in EdgeIndexLists :
       frame = [NoFrame EXCEPT !.scope = 1, !.numVertices = NumVertices,
                               !.edges = BuildEdges(edgeIndices)]
  /\ pc = "triangles"
  /\ hist = NoHist
  /\ gltf = NoGltf
  /\ loadResources = NoLoadResources
  /\ run = NoRun
  /\ loaded = [layout |-> "none", gltf |-> NoGltf,
               loadResources |-> NoLoadResources]

\* the for loop's test, and its body up to the first matchAndStoreCoordinates
SolveTriangle(t) ==
  /\ pc = "triangles"
  /\ hist.triangles < MaxTriangles
  /\ \E r \in { TryTriangle(scopes[1], frame, t) } :
         /\ scopes' = [scopes EXCEPT ![1] = r.scope]
         /\ frame' = r.frame
         /\ pc' = IF r.frame.unmatchableVertexIndex >= 0
                    THEN "retry" ELSE "stored"
  /\ hist' = StartHist(scopes[1], t, hist)
  /\ UNCHANGED << gltf, loadResources, run, loaded, models, cache, options,
                  provider >>

\* one turn of while (unmatchableVertexIndex >= 0)
SolveRetry ==
  /\ pc = "retry"
  /\ \E r \in { CopyAndRetry(scopes[1], frame) } :
         /\ scopes' = [scopes EXCEPT ![1] = r.scope]
         /\ frame' = r.frame
         /\ pc' = IF r.frame.unmatchableVertexIndex >= 0
                    THEN "retry" ELSE "stored"
  /\ hist' = [hist EXCEPT !.retries = Min(hist.retries + 1, RetryCap)]
  /\ UNCHANGED << gltf, loadResources, run, loaded, models, cache, options,
                  provider >>

\* i += 3: the locals of the finished turn are dead (each is assigned before
\* it is read in the next turn)
NextFrame(fr) ==
  [NoFrame EXCEPT !.scope = fr.scope, !.primitive = fr.primitive,
                  !.numVertices = fr.numVertices, !.edges = fr.edges,
                  !.i = fr.i + 3]

NextHist(h) == [NoHist EXCEPT !.triangles = h.triangles]

SolveNext ==
  /\ pc = "stored"
  /\ frame' = NextFrame(frame)
  /\ hist' = NextHist(hist)
  /\ pc' = "triangles"
  /\ UNCHANGED << scopes, gltf, loadResources, run, loaded, models, cache,
                  options, provider >>

SolverNext ==
  \/ \E t \in Triangles : SolveTriangle(t)
  \/ SolveRetry
  \/ SolveNext

SolverSpec == SolverInit /\ [][SolverNext]_vars

\* the loop is synchronous code: a turn that can run does run
SolverFairSpec == SolverSpec /\ WF_vars(SolveRetry) /\ WF_vars(SolveNext)

(***************************************************************************)
(* computeOrderMask alone: one call, for a vertex with any stored          *)
(* coordinates or none, and any wanted coordinates.                        *)
(***************************************************************************)
\* the vertices the call is made for
MaskVertices == { 0, NumVertices - 1 }

\* outlineCoordinates with the three slots of a vertex set
StoredAt(vertexIndex, stored) ==
  [o \in { 3 * vertexIndex + slot : slot \in 0 .. 2 } |->
     stored[o - 3 * vertexIndex + 1]]

\* run holds the arguments of the call and, once it returned, its result
MaskInit ==
  /\ \E vertexIndex \in MaskVertices :
       /\ \E outlineCoordinates \in
              { << >> } \cup { StoredAt(vertexIndex, stored) :
                                stored \in [1 .. 3 -> { 0, 1 }] } :
            scopes = << [NewScope EXCEPT
                           !.outlineCoordinates = outlineCoordinates] >>
       /\ \E a \in { 0, 1 }, b \in { 0, 1 }, c \in { 0, 1 } :
            run = [vertexIndex |-> vertexIndex, a |-> a, b |-> b, c |-> c,
                   returned |-> FALSE, mask |-> Undefined]
  /\ frame = NoFrame
  /\ pc = "start"
  /\ hist = NoHist
  /\ gltf = NoGltf
  /\ loadResources = NoLoadResources
  /\ loaded = [layout |-> "none", gltf |-> NoGltf,
               loadResources |-> NoLoadResources]
  /\ models = << >>
  /\ cache = NoCache
  /\ options = << >>
  /\ provider = NoProvider

\* one call of computeOrderMask(outlineCoordinates, vertexIndex, a, b, c)
CallComputeOrderMask ==
  /\ ~run.returned
  /\ run' = [run EXCEPT
               !.returned = TRUE,
               !.mask = computeOrderMask(scopes[1].outlineCoordinates,
                                         run.vertexIndex, run.a, run.b, run.c)]
  /\ UNCHANGED << scopes, frame, pc, hist, gltf, loadResources, loaded,
                  models, cache, options, provider >>

MaskNext == CallComputeOrderMask

MaskSpec == MaskInit /\ [][MaskNext]_vars

(***************************************************************************)
(* addOutline as a whole, called again on the triangles it has resolved.   *)
(***************************************************************************)
MaxRuns == 2

\* while (unmatchableVertexIndex >= 0) { ... }: the scope and the locals
\* when the loop is left
RECURSIVE RetryLoop(_, _)
RetryLoop(scope, fr) ==
  IF fr.unmatchableVertexIndex >= 0
    THEN LET r == CopyAndRetry(scope, fr) IN RetryLoop(r.scope, r.frame)
    ELSE [scope |-> scope, frame |-> fr]

\* the for loop over triangleIndices (one triple per triangle) from triangle
\* number i on: the scope and the index buffer when the loop is left
RECURSIVE TriangleLoop(_, _, _, _)
TriangleLoop(scope, fr, triangleIndices, i) ==
  IF i > Len(triangleIndices)
    THEN [scope |-> scope, triangleIndices |-> triangleIndices]
    ELSE LET first == TryTriangle(scope, fr, triangleIndices[i])
             last == RetryLoop(first.scope, first.frame)
         IN  TriangleLoop(last.scope, fr,
                          [triangleIndices EXCEPT ![i] = last.frame.idx], i + 1)

\* the index buffers: one to MaxTriangles triangles
TriangleIndexLists ==
  UNION { [1 .. n -> Triangles] : n \in 1 .. MaxTriangles }

\* a fresh scope, a primitive of NumVertices vertices, its edges and its
\* triangle indices (run.triangleIndices is the index buffer); hist keeps the
\* scope and the index buffer as the previous call left them
RerunInit ==
  /\ scopes = << NewScope >>
  /\ \E edgeIndices \in EdgeIndexLists :
       frame = [NoFrame EXCEPT !.scope = 1, !.numVertices = NumVertices,
                               !.edges = BuildEdges(edgeIndices)]
  /\ \E triangleIndices \in TriangleIndexLists :
       run = [triangleIndices |-> triangleIndices, calls |-> 0]
  /\ hist = [scope |-> NewScope, triangleIndices |-> << >>]
  /\ pc = "start"
  /\ gltf = NoGltf
  /\ loadResources = NoLoadResources
  /\ loaded = [layout |-> "none", gltf |-> NoGltf,
               loadResources |-> NoLoadResources]
  /\ models = << >>
  /\ cache = NoCache
  /\ options = << >>
  /\ provider = NoProvider

\* addOutline(model, context, toOutline, vertexNumberingScope), from its
\* first line to its last
addOutline ==
  /\ run.calls < MaxRuns
  /\ \E r \in { TriangleLoop(scopes[1], frame, run.triangleIndices, 1) } :
       /\ scopes' = << r.scope >>
       /\ run' = [triangleIndices |-> r.triangleIndices,
                  calls |-> run.calls + 1]
  /\ hist' = [scope |-> scopes[1], triangleIndices |-> run.triangleIndices]
  /\ pc' = "done"
  /\ UNCHANGED << frame, gltf, loadResources, loaded, models, cache,
                  options, provider >>

RerunNext == addOutline

RerunSpec == RerunInit /\ [][RerunNext]_vars

(***************************************************************************)
(* Typed arrays.  A Uint8Array is its length, a pattern of four bytes, and *)
(* the bytes that differ from the pattern repeated over the array (zeroes  *)
(* for new Uint8Array(n), the bytes of NaN for the holes of a float array).*)
(***************************************************************************)
ZeroFill == << 0, 0, 0, 0 >>
NaNFill == << 0, 0, 192, 127 >>

ByteLength(bytes) == bytes.length

FillAt(bytes, o) == bytes.fill[(o % 4) + 1]

\* bytes[o] for o in 0 .. length - 1
ByteAt(bytes, o) ==
  IF o \in DOMAIN bytes.at THEN bytes.at[o] ELSE FillAt(bytes, o)

\* new Uint8Array(n)
Zeroes(n) == [length |-> n, fill |-> ZeroFill, at |-> << >>]

\* array.subarray(begin, begin + length)
subarray(bytes, begin, length) ==
  LET end == Min(begin + length, bytes.length)
      kept == { o \in DOMAIN bytes.at : begin <= o /\ o < end }
  IN  [length |-> Max(end - begin, 0),
       fill |-> [k \in 1 .. 4 |-> FillAt(bytes, begin + k - 1)],
       at |-> [o \in { k - begin : k \in kept } |-> bytes.at[o + begin]]]

\* target.set(source, offset)
SetBytes(target, source, offset) ==
  LET last == offset + source.length - 1
      sameFill == \A k \in 0 .. 3 : FillAt(source, k) = FillAt(target, k + offset)
      differing ==
        IF sameFill THEN { k + offset : k \in DOMAIN source.at }
        ELSE { o \in offset .. last : ByteAt(source, o - offset) # FillAt(target, o) }
      rest == { o \in DOMAIN target.at : o < offset \/ o > last }
  IN  [target EXCEPT !.at =
         [o \in rest \cup differing |->
            IF o \in rest THEN target.at[o] ELSE ByteAt(source, o - offset)]]

\* bytes[o] = value; a write outside the array is ignored
WriteByte(bytes, o, value) ==
  IF o < 0 \/ o >= bytes.length THEN bytes
  ELSE IF value = FillAt(bytes, o)
    THEN [bytes EXCEPT !.at = [x \in (DOMAIN bytes.at) \ { o } |-> bytes.at[x]]]
  ELSE [bytes EXCEPT !.at = Put(bytes.at, o, value)]

\* element of a Uint16Array (width 2) or Uint32Array (width 4), little-endian
RECURSIVE ReadElement(_, _, _)
ReadElement(bytes, at, width) ==
  IF width = 0 THEN 0
  ELSE ByteAt(bytes, at) + 256 * ReadElement(bytes, at + 1, width - 1)

\* typedArray[...] = value: the low bytes of the value, the rest is dropped
WriteElement(bytes, at, width, value) ==
  LET byte(o) == (value \div (256 ^ (o - at))) % 256
      range == { o \in at .. (at + width - 1) : o < bytes.length }
      differing == { o \in range : byte(o) # FillAt(bytes, o) }
  IN  [bytes EXCEPT !.at =
         [o \in ((DOMAIN bytes.at) \ range) \cup differing |->
            IF o \in range THEN byte(o) ELSE bytes.at[o]]]

\* the bytes of the float 0.0, of 1.0, and of the NaN that a hole becomes
FloatByte(x, k) ==
  IF x = 0 THEN 0
  ELSE IF x = 1 THEN << 0, 0, 128, 63 >>[k + 1]
  ELSE NaNFill[k + 1]

\* outlineCoordinates.length of the sparse JS array
ArrayLength(arr) ==
  IF DOMAIN arr = {} THEN 0
  ELSE 1 + CHOOSE k \in DOMAIN arr : \A j \in DOMAIN arr : j <= k

\* new Float32Array(outlineCoordinates), as the bytes of its buffer
Float32Array(arr) ==
  LET differing == { o \in { 4 * e + k : e \in DOMAIN arr, k \in 0 .. 3 } :
                       FloatByte(arr[o \div 4], o % 4) # NaNFill[(o % 4) + 1] }
  IN  [length |-> 4 * ArrayLength(arr), fill |-> NaNFill,
       at |-> [o \in differing |-> FloatByte(arr[o \div 4], o % 4)]]

\* element e of a Float32Array over bytes: 0, 1, or Undefined for anything else
ReadFloat(bytes, e) ==
  IF \A k \in 0 .. 3 : ByteAt(bytes, 4 * e + k) = FloatByte(0, k) THEN 0
  ELSE IF \A k \in 0 .. 3 : ByteAt(bytes, 4 * e + k) = FloatByte(1, k) THEN 1
  ELSE Undefined

\* loadResources.getBuffer(bufferView): the bytes the buffer view covers
getBuffer(resources, bufferView) ==
  subarray(resources.buffers[bufferView.buffer + 1], bufferView.byteOffset,
           bufferView.byteLength)

Contains(list, x) == \E k \in 1 .. Len(list) : list[k] = x

(***************************************************************************)
(* The documents: one buffer holding two vertex buffer views, two triangle *)
(* index views and two edge index views, and the primitives of a layout.   *)
(***************************************************************************)
Layouts ==
  { "single", "twoViews", "sharedView", "sharedIndices", "conflict",
    "noAttributes", "emptyAttributes", "nothingQueued" }

\* the number of values of an element of a Uint16Array
Uint16Range == 65536

\* bytes of one vertex record: a SCALAR float or a VEC3 float
ElementSizes == { 4, 12 }

\* 5123 UNSIGNED_SHORT, 5125 UNSIGNED_INT
IndexTypes == { 5123, 5125 }

\* the triangle index buffers
TriangleLists ==
  { << 0, 1, 2 >>,
    << 0, 1, 2, 1, 3, 2 >>,
    << 0, 1, 2, 2, 1, 3, 0, 3, 1 >>,
    << 0, 0, 1 >>,
    << 0, 1, 3 >> }

\* byte k of record v of vertex buffer view number view
RecordByte(view, v, k) == 1 + ((view * 97 + v * 13 + k) % 255)

\* the records of count vertices; those from vertex NumVertices on are zero
VertexBytes(view, count, elementSize) ==
  [length |-> count * elementSize, fill |-> ZeroFill,
   at |-> [o \in 0 .. Min(count, NumVertices) * elementSize - 1 |->
             RecordByte(view, o \div elementSize, o % elementSize)]]

\* a Uint16Array or Uint32Array holding the list
IndexBytes(list, width) ==
  LET byte(o) == (list[(o \div width) + 1] \div (256 ^ (o % width))) % 256
  IN  [length |-> Len(list) * width, fill |-> ZeroFill,
       at |-> [o \in { x \in 0 .. Len(list) * width - 1 : byte(x) # 0 } |->
                 byte(o)]]

RECURSIVE OffsetOf(_, _)
OffsetOf(sections, k) ==
  IF k = 1 THEN 0
  ELSE OffsetOf(sections, k - 1) + ByteLength(sections[k - 1])

\* the bytes of all sections, one after the other
RECURSIVE Place(_, _, _)
Place(bytes, sections, k) ==
  IF k > Len(sections) THEN bytes
  ELSE Place(SetBytes(bytes, sections[k], OffsetOf(sections, k)), sections, k + 1)

Concatenate(sections) ==
  Place(Zeroes(OffsetOf(sections, Len(sections) + 1)), sections, 1)

Attribute(semantic, accessor) == [semantic |-> semantic, accessor |-> accessor]

Primitive(attributes, indices) ==
  [hasAttributes |-> TRUE, attributes |-> attributes, indices |-> indices]

ToOutline(primitive, edgeIndicesAccessorId) ==
  [primitive |-> primitive, edgeIndicesAccessorId |-> edgeIndicesAccessorId]

\* accessors 0, 1: vertices in views 0, 1; 2, 4: triangles in views 2, 4;
\* 3, 5: edges in views 3, 5; the layout "wide" is "single" with as many
\* vertices as a 16-bit index can name
Document(layout, elementSize, byteStride, componentType, triangleList, edgeList) ==
  LET width == IF componentType = 5123 THEN 2 ELSE 4
      otherEdges == << 0, NumVertices - 1 >>
      numVertices == IF layout = "wide" THEN Uint16Range ELSE NumVertices
      sections ==
        << VertexBytes(0, numVertices, elementSize),
           VertexBytes(1, NumVertices, elementSize),
           IndexBytes(triangleList, width),
           IndexBytes(edgeList, width),
           IndexBytes(triangleList, width),
           IndexBytes(otherEdges, width) >>
      counts == << numVertices, NumVertices, Len(triangleList), Len(edgeList),
                   Len(triangleList), Len(otherEdges) >>
      type == IF elementSize = 12 THEN "VEC3" ELSE "SCALAR"
      first == IF elementSize = 12 THEN "POSITION" ELSE "_BATCHID"
      second == IF elementSize = 12 THEN "NORMAL" ELSE "_SELECTED"
      one == Primitive(<< Attribute(first, 0) >>, 2)
      primitives ==
        CASE layout = "single" -> << one >>
          [] layout = "twoViews" ->
               << Primitive(<< Attribute(first, 0), Attribute(second, 1) >>, 2) >>
          [] layout = "sharedView" ->
               << one, Primitive(<< Attribute(first, 0) >>, 4) >>
          [] layout = "sharedIndices" ->
               << one, Primitive(<< Attribute(first, 1) >>, 2) >>
          [] layout = "conflict" ->
               << one,
                  Primitive(<< Attribute(second, 1), Attribute(first, 0) >>, 4) >>
          [] layout = "noAttributes" ->
               << [one EXCEPT !.hasAttributes = FALSE, !.attributes = << >>],
                  one >>
          [] layout = "emptyAttributes" -> << Primitive(<< >>, 2) >>
          [] OTHER -> << one >>
      queue ==
        CASE layout = "nothingQueued" -> << >>
          [] layout = "sharedIndices" -> << ToOutline(0, 3), ToOutline(1, 5) >>
          [] Len(primitives) = 2 -> << ToOutline(0, 3), ToOutline(1, 3) >>
          [] OTHER -> << ToOutline(0, 3) >>
  IN  [layout |-> layout,
       gltf |->
         [accessors |->
            [a \in 1 .. 6 |->
               [bufferView |-> a - 1, byteOffset |-> 0,
                componentType |-> IF a <= 2 THEN 5126 ELSE componentType,
                count |-> counts[a],
                type |-> IF a <= 2 THEN type ELSE "SCALAR"]],
          bufferViews |->
            [v \in 1 .. 6 |->
               [buffer |-> 0, byteOffset |-> OffsetOf(sections, v),
                byteLength |-> ByteLength(sections[v]),
                byteStride |-> IF v <= 2 THEN byteStride ELSE 0,
                vertexNumberingScope |-> 0]],
          buffers |-> << [byteLength |-> ByteLength(Concatenate(sections))] >>,
          primitives |-> primitives],
       loadResources |->
         [buffers |-> << Concatenate(sections) >>,
          primitivesToOutline |-> queue,
          vertexBuffersToCreate |-> << >>]]

(***************************************************************************)
(* outlinePrimitives: the queue loop.                                      *)
(***************************************************************************)
Init ==
  /\ \/ \E layout \in Layouts, elementSize \in ElementSizes,
           componentType \in IndexTypes, triangleList \in TriangleLists,
           edgeList \in EdgeIndexLists :
          \E byteStride \in { 0, elementSize } :
            loaded = Document(layout, elementSize, byteStride, componentType,
                              triangleList, edgeList)
     \/ \E componentType \in IndexTypes :
          loaded = Document("wide", 4, 4, componentType,
                            << 0, 1, 2, 1, 3, 2 >>, << 0, 1, 2, 0, 3, 1 >>)
  /\ gltf = loaded.gltf
  /\ loadResources = loaded.loadResources
  /\ scopes = << >>
  /\ frame = NoFrame
  /\ pc = "start"
  /\ hist = NoHist
  /\ run = NoRun
  /\ models = << >>
  /\ cache = NoCache
  /\ options = << >>
  /\ provider = NoProvider

\* if (loadResources.primitivesToOutline.length === 0) return; the model has
\* no cacheKey, so that the lines before this one do nothing
Start ==
  /\ pc = "start"
  /\ pc' = IF loadResources.primitivesToOutline = << >> THEN "done" ELSE "queue"
  /\ UNCHANGED << scopes, frame, hist, gltf, loadResources, run, loaded,
                  models, cache, options, provider >>

\* vertexNumberingScope.accessors.push(accessorId), unless it is there
PushAccessor(allScopes, s, accessorId) ==
  IF Contains(allScopes[s].accessors, accessorId) THEN allScopes
  ELSE [allScopes EXCEPT ![s].accessors = Append(@, accessorId)]

\* one turn of for (var semantic in attributes); st holds the list bufferViews,
\* the buffer views of the document, the scopes, the local vertexNumberingScope
\* (0 when undefined) and giveUp
ScanAttribute(accessors, st, accessorId) ==
  LET bufferViewId == accessors[accessorId + 1].bufferView
      bufferView == st.views[bufferViewId + 1]
      listed == IF Contains(st.bufferViews, bufferViewId) THEN st.bufferViews
                ELSE Append(st.bufferViews, bufferViewId)
  IN  IF bufferView.vertexNumberingScope = 0
        THEN LET created == IF st.vertexNumberingScope = 0
                              THEN Append(st.scopes, NewScope) ELSE st.scopes
                 s == IF st.vertexNumberingScope = 0
                        THEN Len(created) ELSE st.vertexNumberingScope
             IN  [bufferViews |-> listed,
                  views |-> [st.views EXCEPT
                               ![bufferViewId + 1].vertexNumberingScope = s],
                  scopes |-> PushAccessor(created, s, accessorId),
                  vertexNumberingScope |-> s,
                  giveUp |-> FALSE]
      ELSE IF bufferView.vertexNumberingScope # st.vertexNumberingScope
        THEN [st EXCEPT !.bufferViews = listed, !.giveUp = TRUE]
      ELSE [st EXCEPT !.bufferViews = listed,
                      !.scopes = PushAccessor(st.scopes, st.vertexNumberingScope,
                                              accessorId)]

RECURSIVE ScanAttributes(_, _, _, _)
ScanAttributes(accessors, st, attributes, k) ==
  IF k > Len(attributes) \/ st.giveUp THEN st
  ELSE ScanAttributes(accessors,
                      ScanAttribute(accessors, st, attributes[k].accessor),
                      attributes, k + 1)

\* the typed array of an index accessor: where it starts in which buffer, the
\* bytes of an element and the number of elements
IndexView(document, accessorId) ==
  LET accessor == document.accessors[accessorId + 1]
      bufferView == document.bufferViews[accessor.bufferView + 1]
  IN  [buffer |-> bufferView.buffer,
       byteOffset |-> bufferView.byteOffset + accessor.byteOffset,
       width |-> IF accessor.componentType = 5123 THEN 2 ELSE 4,
       length |-> accessor.count]

ReadIndex(resources, view, e) ==
  ReadElement(resources.buffers[view.buffer + 1],
              view.byteOffset + e * view.width, view.width)

ReadIndices(resources, view) ==
  [e \in 1 .. view.length |-> ReadIndex(resources, view, e - 1)]

\* the while loop's body up to addOutline's triangle loop; the documents have
\* one mesh, which holds every queued primitive, so the lookups of the mesh and
\* of the primitive always succeed
Dequeue ==
  /\ pc = "queue"
  /\ loadResources.primitivesToOutline # << >>
  /\ LET toOutline == Head(loadResources.primitivesToOutline)
         primitive == gltf.primitives[toOutline.primitive + 1]
         st == ScanAttributes(gltf.accessors,
                              [bufferViews |-> run.bufferViews,
                               views |-> gltf.bufferViews, scopes |-> scopes,
                               vertexNumberingScope |-> 0, giveUp |-> FALSE],
                              primitive.attributes, 1)
         s == st.vertexNumberingScope
         edgeIndices == ReadIndices(loadResources,
                                    IndexView(gltf, toOutline.edgeIndicesAccessorId))
     IN  /\ loadResources' =
              [loadResources EXCEPT !.primitivesToOutline = Tail(@)]
         /\ IF ~primitive.hasAttributes
              THEN /\ pc' = "queue"
                   /\ UNCHANGED << scopes, frame, gltf, run >>
              ELSE /\ gltf' = [gltf EXCEPT !.bufferViews = st.views]
                   /\ run' = [run EXCEPT !.bufferViews = st.bufferViews]
                   /\ IF st.giveUp
                        THEN /\ pc' = "queue"
                             /\ scopes' = st.scopes
                             /\ UNCHANGED frame
                      ELSE IF s = 0
                        THEN /\ pc' = "threw"
                             /\ scopes' = st.scopes
                             /\ UNCHANGED frame
                      ELSE /\ pc' = "triangles"
                           /\ scopes' = [st.scopes EXCEPT ![s].primitives =
                                           Append(@, toOutline.primitive)]
                           /\ frame' =
                                [NoFrame EXCEPT
                                   !.scope = s,
                                   !.primitive = toOutline.primitive,
                                   !.numVertices =
                                     gltf.accessors[
                                       primitive.attributes[1].accessor + 1].count,
                                   !.edges = BuildEdges(edgeIndices)]
  /\ UNCHANGED << hist, loaded, models, cache, options, provider >>

TriangleIndices == IndexView(gltf, gltf.primitives[frame.primitive + 1].indices)

\* the for loop's test and its body up to the first matchAndStoreCoordinates
Triangle ==
  /\ pc = "triangles"
  /\ frame.i < TriangleIndices.length
  /\ LET t == << ReadIndex(loadResources, TriangleIndices, frame.i),
                 ReadIndex(loadResources, TriangleIndices, frame.i + 1),
                 ReadIndex(loadResources, TriangleIndices, frame.i + 2) >>
     IN  /\ \E r \in { TryTriangle(scopes[frame.scope], frame, t) } :
              /\ scopes' = [scopes EXCEPT ![frame.scope] = r.scope]
              /\ frame' = r.frame
              /\ pc' = IF r.frame.unmatchableVertexIndex >= 0
                         THEN "retry" ELSE "stored"
         /\ hist' = StartHist(scopes[frame.scope], t, hist)
  /\ UNCHANGED << gltf, loadResources, run, loaded, models, cache, options,
                  provider >>

\* one turn of while (unmatchableVertexIndex >= 0), the write to the index
\* buffer included
Retry ==
  /\ pc = "retry"
  /\ \E r \in { CopyAndRetry(scopes[frame.scope], frame) } :
       /\ scopes' = [scopes EXCEPT ![frame.scope] = r.scope]
       /\ frame' = r.frame
       /\ pc' = IF r.frame.unmatchableVertexIndex >= 0 THEN "retry" ELSE "stored"
       /\ loadResources' =
            [loadResources EXCEPT
               !.buffers[TriangleIndices.buffer + 1] =
                 WriteElement(@, TriangleIndices.byteOffset
                                   + (frame.i + r.pos - 1) * TriangleIndices.width,
                              TriangleIndices.width, r.copy)]
  /\ hist' = [hist EXCEPT !.retries = Min(hist.retries + 1, RetryCap)]
  /\ UNCHANGED << gltf, run, loaded, models, cache, options, provider >>

\* i += 3
NextTriangle ==
  /\ pc = "stored"
  /\ frame' = NextFrame(frame)
  /\ hist' = NextHist(hist)
  /\ pc' = "triangles"
  /\ UNCHANGED << scopes, gltf, loadResources, run, loaded, models, cache,
                  options, provider >>

\* addOutline returns
EndPrimitive ==
  /\ pc = "triangles"
  /\ frame.i >= TriangleIndices.length
  /\ pc' = "queue"
  /\ frame' = NoFrame
  /\ hist' = NoHist
  /\ UNCHANGED << scopes, gltf, loadResources, run, loaded, models, cache,
                  options, provider >>

\* the queue is empty
EndQueue ==
  /\ pc = "queue"
  /\ loadResources.primitivesToOutline = << >>
  /\ pc' = "rebuild"
  /\ run' = [run EXCEPT !.i = 0]
  /\ UNCHANGED << scopes, frame, hist, gltf, loadResources, loaded, models,
                  cache, options, provider >>

(***************************************************************************)
(* outlinePrimitives: rebuilding the buffer views, compacting the buffers. *)
(***************************************************************************)
\* for (k ...) destData[destIndex + k] = destData[sourceIndex + k]
RECURSIVE CopyRecord(_, _, _, _, _)
CopyRecord(destData, destIndex, sourceIndex, k, byteStride) ==
  IF k >= byteStride THEN destData
  ELSE LET value == IF sourceIndex + k < destData.length
                      THEN ByteAt(destData, sourceIndex + k) ELSE 0
       IN  CHOOSE copied \in
             { CopyRecord(written, destIndex, sourceIndex, k + 1, byteStride) :
               written \in { WriteByte(destData, destIndex + k, value) } } : TRUE

\* for (j ...) copy the record of newVertices[j] behind the source data
RECURSIVE CopyVertices(_, _, _, _, _)
CopyVertices(destData, newVertices, j, byteStride, sourceLength) ==
  IF j >= Len(newVertices) THEN destData
  ELSE CHOOSE copied \in
         { CopyVertices(record, newVertices, j + 1, byteStride, sourceLength) :
           record \in { CopyRecord(destData, sourceLength + j * byteStride,
                                   newVertices[j + 1] * byteStride, 0,
                                   byteStride) } } : TRUE

\* gltf.accessors[accessorId].count += n for every accessor of the scope
RECURSIVE GrowAccessors(_, _, _)
GrowAccessors(accessors, scopeAccessors, n) ==
  IF scopeAccessors = << >> THEN accessors
  ELSE GrowAccessors(
         [accessors EXCEPT ![Head(scopeAccessors) + 1].count = @ + n],
         Tail(scopeAccessors), n)

\* primitive.attributes._OUTLINE_COORDINATES = accessorIndex
SetAttribute(attributes, semantic, accessorIndex) ==
  IF \E k \in 1 .. Len(attributes) : attributes[k].semantic = semantic
    THEN [k \in 1 .. Len(attributes) |->
            IF attributes[k].semantic = semantic
              THEN Attribute(semantic, accessorIndex) ELSE attributes[k]]
    ELSE Append(attributes, Attribute(semantic, accessorIndex))

RECURSIVE SetOutlineAttribute(_, _, _)
SetOutlineAttribute(primitives, scopePrimitives, accessorIndex) ==
  IF scopePrimitives = << >> THEN primitives
  ELSE SetOutlineAttribute(
         [primitives EXCEPT ![Head(scopePrimitives) + 1].attributes =
            SetAttribute(@, "_OUTLINE_COORDINATES", accessorIndex)],
         Tail(scopePrimitives), accessorIndex)

\* lines 295-342: the buffer, buffer view and accessor of the outline
\* coordinates of a scope, and the attribute of its primitives
CreateOutlines(document, resources, vertexNumberingScope) ==
  LET outlineCoordinateBuffer ==
        Float32Array(vertexNumberingScope.outlineCoordinates)
      byteLength == ByteLength(outlineCoordinateBuffer)
      bufferIndex == Len(document.buffers)
      bufferViewIndex == Len(document.bufferViews)
      accessorIndex == Len(document.accessors)
  IN  [gltf |->
         [buffers |-> Append(document.buffers, [byteLength |-> byteLength]),
          bufferViews |->
            Append(document.bufferViews,
                   [buffer |-> bufferIndex, byteOffset |-> 0,
                    byteLength |-> byteLength, byteStride |-> 12,
                    vertexNumberingScope |-> 0]),
          accessors |->
            Append(document.accessors,
                   [bufferView |-> bufferViewIndex, byteOffset |-> 0,
                    componentType |-> 5126,
                    count |-> (byteLength \div 4) \div 3,
                    type |-> "VEC3"]),
          primitives |->
            SetOutlineAttribute(document.primitives,
                                vertexNumberingScope.primitives, accessorIndex)],
       loadResources |->
         [resources EXCEPT
            !.buffers = Append(@, outlineCoordinateBuffer),
            !.vertexBuffersToCreate = Append(@, bufferViewIndex)]]

\* a plausible slip: the flag is not consulted
OutlinesNotCreatedAlways(vertexNumberingScope) == TRUE

\* if (!vertexNumberingScope.createdOutlines)
OutlinesNotCreated(vertexNumberingScope) ==
  ~vertexNumberingScope.createdOutlines

\* one turn of for (i = 0; i < bufferViews.length; ++i)
Rebuild ==
  /\ pc = "rebuild"
  /\ run.i < Len(run.bufferViews)
  /\ LET bufferViewId == run.bufferViews[run.i + 1]
         bufferView == gltf.bufferViews[bufferViewId + 1]
         s == bufferView.vertexNumberingScope
         newVertices == scopes[s].extraVertices
         sourceData == getBuffer(loadResources, bufferView)
         byteStride == IF bufferView.byteStride = 0 THEN 4
                       ELSE bufferView.byteStride
         destData ==
           CopyVertices(
             SetBytes(Zeroes(ByteLength(sourceData)
                               + Len(newVertices) * byteStride),
                      sourceData, 0),
             newVertices, 0, byteStride, ByteLength(sourceData))
         bufferId == Len(gltf.buffers)
         grown ==
           [gltf EXCEPT
              !.bufferViews[bufferViewId + 1] =
                [@ EXCEPT !.vertexNumberingScope = 0, !.byteOffset = 0,
                          !.byteLength = ByteLength(destData),
                          !.buffer = bufferId],
              !.buffers = Append(@, [byteLength |-> ByteLength(destData)]),
              !.accessors = GrowAccessors(@, scopes[s].accessors,
                                          Len(newVertices))]
         resources == [loadResources EXCEPT !.buffers = Append(@, destData)]
     IN  IF ~OutlinesNotCreated(scopes[s])
           THEN /\ gltf' = grown
                /\ loadResources' = resources
                /\ UNCHANGED scopes
           ELSE \E r \in { CreateOutlines(grown, resources, scopes[s]) } :
                  /\ gltf' = r.gltf
                  /\ loadResources' = r.loadResources
                  /\ scopes' = [scopes EXCEPT ![s].createdOutlines = TRUE]
  /\ run' = [run EXCEPT !.i = @ + 1]
  /\ UNCHANGED << frame, pc, hist, loaded, models, cache, options, provider >>

EndRebuild ==
  /\ pc = "rebuild"
  /\ run.i >= Len(run.bufferViews)
  /\ pc' = "compact"
  /\ run' = [run EXCEPT !.i = 0]
  /\ UNCHANGED << scopes, frame, hist, gltf, loadResources, loaded, models,
                  cache, options, provider >>

\* gltf.bufferViews.filter(bufferView.buffer === i), as buffer view ids
RECURSIVE ViewsOfBuffer(_, _, _)
ViewsOfBuffer(bufferViews, i, k) ==
  IF k > Len(bufferViews) THEN << >>
  ELSE (IF bufferViews[k].buffer = i THEN << k - 1 >> ELSE << >>)
         \o ViewsOfBuffer(bufferViews, i, k + 1)

\* bufferViews.reduce(previous + current.byteLength, 0)
RECURSIVE SumByteLength(_, _)
SumByteLength(bufferViews, ids) ==
  IF ids = << >> THEN 0
  ELSE bufferViews[Head(ids) + 1].byteLength
         + SumByteLength(bufferViews, Tail(ids))

\* a plausible slip: byteOffset is assigned before the data is read
RECURSIVE PackViewsMovedFirst(_, _, _)
PackViewsMovedFirst(resources, st, ids) ==
  IF ids = << >> THEN st
  ELSE LET v == Head(ids) + 1
           moved == [st.bufferViews EXCEPT ![v].byteOffset = st.offset]
           sourceData == getBuffer(resources, moved[v])
       IN  PackViewsMovedFirst(
             resources,
             [bufferViews |-> moved,
              newBuffer |-> SetBytes(st.newBuffer, sourceData, st.offset),
              offset |-> st.offset + st.bufferViews[v].byteLength],
             Tail(ids))

\* a plausible slip: offset is not advanced
RECURSIVE PackViewsNoAdvance(_, _, _)
PackViewsNoAdvance(resources, st, ids) ==
  IF ids = << >> THEN st
  ELSE LET v == Head(ids) + 1
           sourceData == getBuffer(resources, st.bufferViews[v])
       IN  PackViewsNoAdvance(
             resources,
             [bufferViews |-> [st.bufferViews EXCEPT ![v].byteOffset = st.offset],
              newBuffer |-> SetBytes(st.newBuffer, sourceData, st.offset),
              offset |-> st.offset],
             Tail(ids))

\* for (j ...) newBuffer.set(sourceData, offset); bufferView.byteOffset = offset
\* st holds the buffer views of the document, newBuffer and offset
RECURSIVE PackViews(_, _, _)
PackViews(resources, st, ids) ==
  IF ids = << >> THEN st
  ELSE LET v == Head(ids) + 1
           sourceData == getBuffer(resources, st.bufferViews[v])
       IN  PackViews(resources,
                     [bufferViews |-> [st.bufferViews EXCEPT
                                         ![v].byteOffset = st.offset],
                      newBuffer |-> SetBytes(st.newBuffer, sourceData, st.offset),
                      offset |-> st.offset + ByteLength(sourceData)],
                     Tail(ids))

\* one turn of for (i = 0; i < gltf.buffers.length; ++i)
Compact ==
  /\ pc = "compact"
  /\ run.i < Len(gltf.buffers)
  /\ LET ids == ViewsOfBuffer(gltf.bufferViews, run.i, 1)
         newLength == SumByteLength(gltf.bufferViews, ids)
     IN  IF newLength = gltf.buffers[run.i + 1].byteLength
           THEN UNCHANGED << gltf, loadResources >>
           ELSE \E st \in { PackViews(loadResources,
                                      [bufferViews |-> gltf.bufferViews,
                                       newBuffer |-> Zeroes(newLength),
                                       offset |-> 0], ids) } :
                  /\ gltf' = [gltf EXCEPT
                                !.bufferViews = st.bufferViews,
                                !.buffers[run.i + 1].byteLength = newLength]
                  /\ loadResources' =
                       [loadResources EXCEPT !.buffers[run.i + 1] = st.newBuffer]
  /\ run' = [run EXCEPT !.i = @ + 1]
  /\ UNCHANGED << scopes, frame, pc, hist, loaded, models, cache, options,
                  provider >>

EndCompact ==
  /\ pc = "compact"
  /\ run.i >= Len(gltf.buffers)
  /\ pc' = "done"
  /\ UNCHANGED << scopes, frame, hist, gltf, loadResources, run, loaded,
                  models, cache, options, provider >>

Next ==
  \/ Start
  \/ Dequeue
  \/ Triangle
  \/ Retry
  \/ NextTriangle
  \/ EndPrimitive
  \/ EndQueue
  \/ Rebuild
  \/ EndRebuild
  \/ Compact
  \/ EndCompact

Spec == Init /\ [][Next]_vars

(***************************************************************************)
(* The cache of results: parse and the first lines of outlinePrimitives,   *)
(* called by several models of one context in any order.                   *)
(***************************************************************************)
NumModels == 3
NumKeys == 2
MaxOutlined == 1
MaxCalls == 2

ModelIds == 1 .. NumModels
CacheKeys == 1 .. NumKeys

\* a model as it is constructed: its cacheKey, whether it uses the extension,
\* the number of its primitives that carry CESIUM_primitive_outline, its load
\* resources, the entries its pending callbacks hold, and history: parse was
\* called, the calls of outlinePrimitives, parse enqueued a primitive, the
\* runs of the queue loop, parse found an entry, a callback assigned
\* _decodedData, and the entry's ready flag at that time
Model(cacheKey, hasExtension, outlined) ==
  [cacheKey |-> cacheKey, hasExtension |-> hasExtension, outlined |-> outlined,
   primitivesToOutline |-> 0, pendingDecodingCache |-> FALSE,
   decodedData |-> Undefined, awaiting |-> << >>,
   parsed |-> FALSE, calls |-> 0, enqueued |-> FALSE, ran |-> 0,
   cached |-> FALSE, resolved |-> FALSE, readyThen |-> FALSE]

\* the object literal of a cache entry
NewEntry == [ready |-> FALSE, count |-> 1, data |-> Undefined]

CacheInit ==
  /\ models \in [ModelIds ->
                   { Model(cacheKey, hasExtension, outlined) :
                       cacheKey \in CacheKeys \cup { Undefined },
                       hasExtension \in BOOLEAN,
                       outlined \in 0 .. MaxOutlined }]
  /\ cache = NoCache
  /\ options = << >>
  /\ provider = NoProvider
  /\ scopes = << >>
  /\ frame = NoFrame
  /\ pc = "start"
  /\ hist = NoHist
  /\ gltf = NoGltf
  /\ loadResources = NoLoadResources
  /\ run = NoRun
  /\ loaded = [layout |-> "none", gltf |-> NoGltf,
               loadResources |-> NoLoadResources]

\* the entry of a cacheKey, 0 for undefined
CachedData(cacheKey) ==
  IF cacheKey \in DOMAIN cache.entries THEN cache.entries[cacheKey] ELSE 0

\* ModelOutlineLoader.parse, called once for a model
parse(m) ==
  LET model == models[m]
      cachedData == CachedData(model.cacheKey)
  IN  /\ ~model.parsed
      /\ IF ~model.hasExtension
            THEN /\ models' = [models EXCEPT ![m].parsed = TRUE]
                 /\ UNCHANGED cache
          ELSE IF model.cacheKey # Undefined /\ cachedData # 0
            THEN /\ cache' = [cache EXCEPT !.objects[cachedData].count = @ + 1]
                 /\ models' = [models EXCEPT ![m].parsed = TRUE,
                                             ![m].cached = TRUE,
                                             ![m].pendingDecodingCache = TRUE]
          ELSE /\ cache' = IF model.cacheKey # Undefined
                             THEN [cache EXCEPT !.defined = TRUE]
                             ELSE cache
               /\ models' = [models EXCEPT
                               ![m].parsed = TRUE,
                               ![m].primitivesToOutline = @ + model.outlined,
                               ![m].enqueued = model.outlined > 0]
      /\ UNCHANGED << scopes, frame, pc, hist, gltf, loadResources, run,
                      loaded, options, provider >>

\* ModelOutlineLoader.outlinePrimitives, called after parse, once a frame; the
\* queue loop and what follows it are one step here, which empties the queue
\* and touches neither the cache nor the other models
outlinePrimitives(m) ==
  LET model == models[m]
      useCache == model.cacheKey # Undefined /\ cache.defined
      cachedData == IF useCache THEN CachedData(model.cacheKey) ELSE 0
      called == [models EXCEPT ![m].calls = @ + 1]
  IN  /\ model.parsed
      /\ model.calls < MaxCalls
      /\ IF ~model.hasExtension
            THEN /\ models' = called
                 /\ UNCHANGED cache
          ELSE IF cachedData # 0 /\ model.pendingDecodingCache
            THEN /\ models' = [called EXCEPT ![m].awaiting = Append(@, cachedData)]
                 /\ UNCHANGED cache
          ELSE /\ cache' =
                   IF useCache
                     THEN [cache EXCEPT
                             !.objects = Append(@, NewEntry),
                             !.entries = (model.cacheKey :> Len(cache.objects) + 1)
                                           @@ @]
                     ELSE cache
               /\ models' =
                   [called EXCEPT
                      ![m].primitivesToOutline = 0,
                      ![m].ran = IF model.primitivesToOutline > 0
                                   THEN @ + 1 ELSE @]
      /\ UNCHANGED << scopes, frame, pc, hist, gltf, loadResources, run,
                      loaded, options, provider >>

\* the callback given to when(cachedData.ready, ...): cachedData.ready is a
\* boolean, not a promise, so that the callback is due as soon as it is
\* registered, whatever the entry's ready flag says then or later
whenReady(m) ==
  /\ models[m].awaiting # << >>
  /\ LET cachedData == cache.objects[Head(models[m].awaiting)]
     IN  models' = [models EXCEPT ![m].awaiting = Tail(@),
                                  ![m].decodedData = cachedData.data,
                                  ![m].pendingDecodingCache = FALSE,
                                  ![m].resolved = TRUE,
                                  ![m].readyThen = cachedData.ready]
  /\ UNCHANGED << scopes, frame, pc, hist, gltf, loadResources, run, loaded,
                  cache, options, provider >>

CacheNext ==
  \/ \E m \in ModelIds : parse(m)
  \/ \E m \in ModelIds : outlinePrimitives(m)
  \/ \E m \in ModelIds : whenReady(m)

CacheSpec == CacheInit /\ [][CacheNext]_vars

(***************************************************************************)
(* MapboxStyleImageryProvider: the constructor, up to resource.url.  A     *)
(* string is the sequence of the pieces it is concatenated from; options   *)
(* is a function of the properties that were given.                        *)
(***************************************************************************)
\* defined(options.name)
defined(object, name) == name \in DOMAIN object

\* defaultValue(options.name, value)
defaultValue(object, name, value) ==
  IF defined(object, name) THEN object[name] ELSE value

\* trailingSlashRegex.test(templateUrl)
EndsWithSlash(templateUrl) ==
  templateUrl # << >> /\ templateUrl[Len(templateUrl)] = "/"

\* the values a property may be given with, and the property left out
Given(name, values) == { << >> } \cup { name :> value : value \in values }

OptionsGiven ==
  { url @@ username @@ styleId @@ tilesize @@ scaleFactor :
      url \in Given("url", { << "https://api.mapbox.com/styles/v1", "/" >>,
                             << "https://tiles.example.com/styles" >> }),
      username \in Given("username", { "cesium" }),
      styleId \in Given("styleId", { "streets-v11", "dark-v10" }),
      tilesize \in Given("tilesize", { "256" }),
      scaleFactor \in Given("scaleFactor", BOOLEAN) }

MapboxInit ==
  /\ options \in OptionsGiven
  /\ provider = NoProvider
  /\ scopes = << >>
  /\ frame = NoFrame
  /\ pc = "start"
  /\ hist = NoHist
  /\ gltf = NoGltf
  /\ loadResources = NoLoadResources
  /\ run = NoRun
  /\ loaded = [layout |-> "none", gltf |-> NoGltf,
               loadResources |-> NoLoadResources]
  /\ models = << >>
  /\ cache = NoCache

\* var scaleFactor = defined(options.scaleFactor) ? "@2x" : ""
ScaleFactorSuffix(object) ==
  IF defined(object, "scaleFactor") THEN << "@2x" >> ELSE << >>

\* the constructor's lines 56-87 for a style id
TemplateUrl(object, styleId) ==
  LET resource ==
        defaultValue(object, "url",
                     << "https://api.mapbox.com/styles/v1", "/" >>)
      tilesize == defaultValue(object, "tilesize", "512")
      username == defaultValue(object, "username", "mapbox")
      scaleFactor == ScaleFactorSuffix(object)
      templateUrl ==
        IF EndsWithSlash(resource) THEN resource ELSE resource \o << "/" >>
  IN  templateUrl
        \o << username, "/", styleId, "/tiles/", tilesize, "/{z}/{x}/{y}" >>
        \o scaleFactor

\* new MapboxStyleImageryProvider(options): the url options carry no query
\* string, so that getUrlComponent() returns them as they were given; the
\* test of styleId is in debug builds only, a release build concatenates
\* the undefined style id
MapboxStyleImageryProvider ==
  /\ ~provider.constructed
  /\ ~provider.threw
  /\ IF ~defined(options, "styleId")
       THEN \/ provider' = [provider EXCEPT !.threw = TRUE]
            \/ provider' =
                 [constructed |-> TRUE, threw |-> FALSE,
                  templateUrl |-> TemplateUrl(options, "undefined")]
       ELSE provider' =
              [constructed |-> TRUE, threw |-> FALSE,
               templateUrl |-> TemplateUrl(options, options["styleId"])]
  /\ UNCHANGED << scopes, frame, pc, hist, gltf, loadResources, run, loaded,
                  models, cache, options >>

MapboxNext == MapboxStyleImageryProvider

MapboxSpec == MapboxInit /\ [][MapboxNext]_vars

(***************************************************************************)
(* Properties of outlinePrimitives (Spec).                                 *)
(***************************************************************************)
ScopeIds == 1 .. Len(scopes)

\* the primitives that went through addOutline
Processed ==
  { p \in 0 .. Len(gltf.primitives) - 1 :
      \E s \in ScopeIds : Contains(scopes[s].primitives, p) }

\* the edge index accessor a primitive was queued with
EdgeAccessorOf(p) ==
  LET queue == loaded.loadResources.primitivesToOutline
  IN  queue[CHOOSE k \in 1 .. Len(queue) : queue[k].primitive = p]
        .edgeIndicesAccessorId

\* the accessor of an attribute of a primitive, Undefined when it has none
AttributeAccessor(document, p, semantic) ==
  LET attributes == document.primitives[p + 1].attributes
  IN  IF \E k \in 1 .. Len(attributes) : attributes[k].semantic = semantic
        THEN attributes[CHOOSE k \in 1 .. Len(attributes) :
                          attributes[k].semantic = semantic].accessor
        ELSE Undefined

\* the three outline coordinates of vertex v as the primitive's attribute
\* gives them; << >> when the attribute has no such vertex
OutlineTriple(p, v) ==
  LET accessorId == AttributeAccessor(gltf, p, "_OUTLINE_COORDINATES")
      accessor == gltf.accessors[accessorId + 1]
      bytes == getBuffer(loadResources, gltf.bufferViews[accessor.bufferView + 1])
  IN  IF accessorId = Undefined \/ v >= accessor.count THEN << >>
      ELSE << ReadFloat(bytes, 3 * v), ReadFloat(bytes, 3 * v + 1),
              ReadFloat(bytes, 3 * v + 2) >>

SlotPermutations ==
  { f \in [1 .. 3 -> 1 .. 3] : \A x, y \in 1 .. 3 : f[x] = f[y] => x = y }

\* triangle number n of a processed primitive: the indices it has now, and the
\* flags of the indices it was loaded with
ConsistentTriangle(p, n) ==
  LET indices == gltf.primitives[p + 1].indices
      now == IndexView(gltf, indices)
      before == IndexView(loaded.gltf, indices)
      edges == BuildEdges(ReadIndices(loaded.loadResources,
                                      IndexView(loaded.gltf, EdgeAccessorOf(p))))
      o == [k \in 1 .. 3 |-> ReadIndex(loaded.loadResources, before, 3 * n + k - 1)]
      i == [k \in 1 .. 3 |-> ReadIndex(loadResources, now, 3 * n + k - 1)]
      has01 == isHighlighted(edges, o[1], o[2])
      has12 == isHighlighted(edges, o[2], o[3])
      has20 == isHighlighted(edges, o[3], o[1])
      want == << << B2N(has20), B2N(has01), 0 >>,
                 << 0, B2N(has01), B2N(has12) >>,
                 << B2N(has20), 0, B2N(has12) >> >>
  IN  \E f \in SlotPermutations :
        \A k \in 1 .. 3 :
          LET stored == OutlineTriple(p, i[k])
          IN  /\ stored # << >>
              /\ \A x \in 1 .. 3 : stored[f[x]] = want[k][x]

\* C1: when outlinePrimitives is done, every triangle of every processed
\* primitive has one slot permutation under which the outline coordinates of
\* its three (possibly rewritten) vertices are (has20, has01, 0),
\* (0, has01, has12) and (has20, 0, has12).
C1_Consistency ==
  pc = "done" =>
    \A p \in Processed :
      \A n \in 0 .. (gltf.accessors[gltf.primitives[p + 1].indices + 1].count
                       \div 3) - 1 :
        ConsistentTriangle(p, n)

\* C4: when outlinePrimitives is done, the count of every accessor of a scope
\* is its loaded count plus the number of extra vertices of the scope.
C4_CountGrowsByExtraVertices ==
  pc = "done" =>
    \A s \in ScopeIds :
      \A k \in 1 .. Len(scopes[s].accessors) :
        LET a == scopes[s].accessors[k] + 1
        IN  gltf.accessors[a].count
              = loaded.gltf.accessors[a].count + Len(scopes[s].extraVertices)

\* the buffer views the attributes of a loaded primitive reference
ViewsOf(p) ==
  LET attributes == loaded.gltf.primitives[p + 1].attributes
  IN  { loaded.gltf.accessors[attributes[k].accessor + 1].bufferView :
          k \in 1 .. Len(attributes) }

Queued ==
  LET queue == loaded.loadResources.primitivesToOutline
  IN  { queue[k].primitive : k \in 1 .. Len(queue) }

\* C5: when outlinePrimitives is done, two queued primitives whose attributes
\* reference the same buffer views are recorded in one scope, and both have
\* the outline attribute.
C5_SharedViewsShareScope ==
  pc = "done" =>
    \A p, q \in Queued :
      (p # q /\ ViewsOf(p) # {} /\ ViewsOf(p) = ViewsOf(q)) =>
        /\ \E s \in ScopeIds :
             /\ Contains(scopes[s].primitives, p)
             /\ Contains(scopes[s].primitives, q)
        /\ AttributeAccessor(gltf, p, "_OUTLINE_COORDINATES") # Undefined
        /\ AttributeAccessor(gltf, q, "_OUTLINE_COORDINATES") # Undefined

\* C6: when outlinePrimitives is done, every triangle index of a processed
\* primitive is below the count of each of its attribute accessors, the
\* outline attribute included.
C6_IndicesBelowCounts ==
  pc = "done" =>
    \A p \in Processed :
      LET primitive == gltf.primitives[p + 1]
          view == IndexView(gltf, primitive.indices)
      IN  \A e \in 0 .. view.length - 1 :
            \A k \in 1 .. Len(primitive.attributes) :
              ReadIndex(loadResources, view, e)
                < gltf.accessors[primitive.attributes[k].accessor + 1].count

\* bytes of one element of an accessor
ElementSize(accessor) ==
  (IF accessor.type = "VEC3" THEN 3 ELSE IF accessor.type = "VEC2" THEN 2 ELSE 1)
    * (IF accessor.componentType = 5123 THEN 2 ELSE 4)

\* the records of an accessor of a scope: those of the loaded vertices are as
\* loaded, and record numVertices + j is the loaded record of extraVertices[j]
RecordsKept(s, accessorId) ==
  LET accessor == loaded.gltf.accessors[accessorId + 1]
      v == accessor.bufferView + 1
      before == getBuffer(loaded.loadResources, loaded.gltf.bufferViews[v])
      after == getBuffer(loadResources, gltf.bufferViews[v])
      stride == IF loaded.gltf.bufferViews[v].byteStride # 0
                  THEN loaded.gltf.bufferViews[v].byteStride
                  ELSE ElementSize(accessor)
      numVertices == accessor.count
      extraVertices == scopes[s].extraVertices
      Same(to, from) ==
        \A k \in 0 .. stride - 1 :
          /\ to * stride + k < after.length
          /\ ByteAt(after, to * stride + k) = ByteAt(before, from * stride + k)
  IN  /\ \A x \in 0 .. numVertices - 1 : Same(x, x)
      /\ \A j \in 1 .. Len(extraVertices) :
           Same(numVertices + j - 1, extraVertices[j])

\* C7: when outlinePrimitives is done, in every buffer view of a scope the
\* records of the loaded vertices are byte-identical to what was loaded, and
\* the record of duplicate numVertices + j is byte-identical to the loaded
\* record of extraVertices[j], a record being as long as the element stride.
C7_RecordsByteIdentical ==
  pc = "done" =>
    \A s \in ScopeIds :
      \A k \in 1 .. Len(scopes[s].accessors) :
        RecordsKept(s, scopes[s].accessors[k])

\* what outlinePrimitives appended to a list of the document
Added(field) == (Len(loaded.gltf[field]) + 1) .. Len(gltf[field])

\* accessor number a (from 1) is an outline accessor: a VEC3 float accessor on
\* an appended buffer view of an appended buffer
OutlineAccessor(a) ==
  /\ a \in Added("accessors")
  /\ gltf.accessors[a].type = "VEC3"
  /\ gltf.accessors[a].componentType = 5126
  /\ gltf.accessors[a].bufferView + 1 \in Added("bufferViews")
  /\ gltf.bufferViews[gltf.accessors[a].bufferView + 1].buffer + 1
       \in Added("buffers")

\* the scopes with a buffer view among those rebuilt
Reconstructed ==
  { s \in ScopeIds :
      \E k \in 1 .. Len(run.bufferViews) :
        \E a \in 1 .. Len(scopes[s].accessors) :
          loaded.gltf.accessors[scopes[s].accessors[a] + 1].bufferView
            = run.bufferViews[k] }

\* C11: when outlinePrimitives is done, the document has gained one outline
\* accessor, one buffer view and one outline buffer per reconstructed scope
\* (besides the one buffer per rebuilt buffer view), each scope has an outline
\* accessor of its own, and every primitive of the scope has it as its
\* _OUTLINE_COORDINATES attribute.
C11_OneOutlinePerScope ==
  pc = "done" =>
    /\ Cardinality(Added("accessors")) = Cardinality(Reconstructed)
    /\ Cardinality(Added("bufferViews")) = Cardinality(Reconstructed)
    /\ Cardinality(Added("buffers"))
         = Cardinality(Reconstructed) + Len(run.bufferViews)
    /\ \E of \in [Reconstructed -> Added("accessors")] :
         /\ \A s, t \in Reconstructed : of[s] = of[t] => s = t
         /\ \A s \in Reconstructed :
              /\ OutlineAccessor(of[s])
              /\ \A k \in 1 .. Len(scopes[s].primitives) :
                   AttributeAccessor(gltf, scopes[s].primitives[k],
                                     "_OUTLINE_COORDINATES") = of[s] - 1

\* done, with a scope that spans two buffer views and has a primitive
C11_Witness ==
  /\ pc = "done"
  /\ \E s \in Reconstructed :
       /\ Len(scopes[s].primitives) >= 1
       /\ Cardinality({ loaded.gltf.accessors[scopes[s].accessors[a] + 1].bufferView :
                          a \in 1 .. Len(scopes[s].accessors) }) = 2

\* the buffer views (numbered from 1) that reference buffer number b (from 1)
ViewsIn(document, b) ==
  { v \in 1 .. Len(document.bufferViews) : document.bufferViews[v].buffer = b - 1 }

\* the sum of the byte lengths of a set of buffer views
RECURSIVE TotalByteLength(_, _)
TotalByteLength(document, views) ==
  IF views = {} THEN 0
  ELSE LET v == CHOOSE x \in views : TRUE
       IN  document.bufferViews[v].byteLength
             + TotalByteLength(document, views \ { v })

\* C12: when outlinePrimitives is done, the buffer views of every buffer lie
\* inside it, no two of them overlap, and their byte lengths sum to the byte
\* length of the buffer, which is the length of its data.
C12_CompactionExact ==
  pc = "done" =>
    \A b \in 1 .. Len(gltf.buffers) :
      /\ ByteLength(loadResources.buffers[b]) = gltf.buffers[b].byteLength
      /\ TotalByteLength(gltf, ViewsIn(gltf, b)) = gltf.buffers[b].byteLength
      /\ \A v \in ViewsIn(gltf, b) :
           gltf.bufferViews[v].byteOffset + gltf.bufferViews[v].byteLength
             <= gltf.buffers[b].byteLength
      /\ \A v, w \in ViewsIn(gltf, b) :
           v # w =>
             \/ gltf.bufferViews[v].byteOffset + gltf.bufferViews[v].byteLength
                  <= gltf.bufferViews[w].byteOffset
             \/ gltf.bufferViews[w].byteOffset + gltf.bufferViews[w].byteLength
                  <= gltf.bufferViews[v].byteOffset

\* done, the loaded buffer was rewritten shorter and still has several
\* buffer views of more than no bytes
C12_Witness ==
  /\ pc = "done"
  /\ gltf.buffers[1].byteLength < loaded.gltf.buffers[1].byteLength
  /\ Cardinality({ v \in ViewsIn(gltf, 1) : gltf.bufferViews[v].byteLength > 0 })
       >= 2

\* C13: when outlinePrimitives is done, every component of every element of
\* every outline accessor is 0.0 or 1.0.
C13_CoordinatesInRange ==
  pc = "done" =>
    \A a \in Added("accessors") :
      OutlineAccessor(a) =>
        LET bytes == getBuffer(loadResources,
                               gltf.bufferViews[gltf.accessors[a].bufferView + 1])
        IN  \A e \in 0 .. 3 * gltf.accessors[a].count - 1 :
              ReadFloat(bytes, e) \in { 0, 1 }

\* the queued primitives that have attributes and were given up
Skipped ==
  { p \in Queued :
      /\ p \notin Processed
      /\ loaded.gltf.primitives[p + 1].hasAttributes
      /\ loaded.gltf.primitives[p + 1].attributes # << >> }

\* buffer view number v (from 0) holds an attribute of a processed primitive
UsedByProcessed(v) ==
  \E p \in Processed :
    \E k \in 1 .. Len(gltf.primitives[p + 1].attributes) :
      gltf.accessors[gltf.primitives[p + 1].attributes[k].accessor + 1].bufferView
        = v

\* C14: when outlinePrimitives is done, a primitive that was given up has the
\* triangle indices and the attribute map it was loaded with, its attribute
\* accessors keep their count and their buffer views (those no processed
\* primitive uses) keep buffer, byteOffset and byteLength, and every appended
\* accessor and buffer serves a processed primitive.
C14_SkippedUnmodified ==
  pc = "done" =>
    \A p \in Skipped :
      LET before == loaded.gltf.primitives[p + 1]
      IN  /\ gltf.primitives[p + 1] = before
          /\ ReadIndices(loadResources, IndexView(gltf, before.indices))
               = ReadIndices(loaded.loadResources,
                             IndexView(loaded.gltf, before.indices))
          /\ \A k \in 1 .. Len(before.attributes) :
               LET a == before.attributes[k].accessor + 1
                   v == loaded.gltf.accessors[a].bufferView + 1
               IN  UsedByProcessed(v - 1)
                   \/ /\ gltf.accessors[a] = loaded.gltf.accessors[a]
                      /\ gltf.bufferViews[v].buffer
                           = loaded.gltf.bufferViews[v].buffer
                      /\ gltf.bufferViews[v].byteOffset
                           = loaded.gltf.bufferViews[v].byteOffset
                      /\ gltf.bufferViews[v].byteLength
                           = loaded.gltf.bufferViews[v].byteLength
          /\ \A a \in Added("accessors") :
               UsedByProcessed(gltf.accessors[a].bufferView)
          /\ \A b \in Added("buffers") :
               \A v \in ViewsIn(gltf, b) : UsedByProcessed(v - 1)

\* the queued primitives with no attributes: undefined, or a map with no entry
WithoutAttributes ==
  { p \in Queued :
      \/ ~loaded.gltf.primitives[p + 1].hasAttributes
      \/ loaded.gltf.primitives[p + 1].attributes = << >> }

\* C15: outlinePrimitives never throws, and when it is done a queued primitive
\* with no attributes (undefined or an empty map) is as it was loaded and in
\* no scope, while every other queued primitive that was not given up has
\* been processed.
C15_NoAttributesSkipped ==
  /\ pc # "threw"
  /\ pc = "done" =>
       /\ \A p \in WithoutAttributes :
            /\ gltf.primitives[p + 1] = loaded.gltf.primitives[p + 1]
            /\ p \notin Processed
       /\ \A p \in Queued \ WithoutAttributes :
            p \in Processed \/ p \in Skipped

\* the models that use the extension and have the cacheKey
SharingKey(cacheKey) ==
  { m \in ModelIds : models[m].hasExtension /\ models[m].cacheKey = cacheKey }

\* C16: in every state of every interleaving of the calls of parse and
\* outlinePrimitives, among the models that share a cacheKey at most one has
\* enqueued primitives and at most one has run the queue loop.
C16_OneComputationPerKey ==
  \A cacheKey \in CacheKeys :
    /\ Cardinality({ m \in SharingKey(cacheKey) : models[m].enqueued }) <= 1
    /\ Cardinality({ m \in SharingKey(cacheKey) : models[m].ran > 0 }) <= 1

\* C17: a model whose callback has assigned _decodedData and cleared
\* pendingDecodingCache found the ready flag of its cache entry true then.
C17_ResultOnlyWhenReady ==
  \A m \in ModelIds : models[m].resolved => models[m].readyThen

\* every queued primitive was loaded with an empty edge index accessor
NoEdges ==
  LET queue == loaded.loadResources.primitivesToOutline
  IN  /\ queue # << >>
      /\ \A k \in 1 .. Len(queue) :
           loaded.gltf.accessors[queue[k].edgeIndicesAccessorId + 1].count = 0

\* C21: with an empty edge list, when outlinePrimitives is done no scope has
\* an extra vertex, every triangle index is as it was loaded, every written
\* coordinate slot holds 0 and every element of every outline accessor is 0.
C21_NoEdgesAllZero ==
  (pc = "done" /\ NoEdges) =>
    /\ \A s \in ScopeIds :
         /\ scopes[s].extraVertices = << >>
         /\ \A o \in DOMAIN scopes[s].outlineCoordinates :
              scopes[s].outlineCoordinates[o] = 0
    /\ \A p \in Queued :
         LET indices == loaded.gltf.primitives[p + 1].indices
         IN  ReadIndices(loadResources, IndexView(gltf, indices))
               = ReadIndices(loaded.loadResources,
                             IndexView(loaded.gltf, indices))
    /\ \A a \in Added("accessors") :
         OutlineAccessor(a) =>
           LET bytes == getBuffer(loadResources,
                                  gltf.bufferViews[gltf.accessors[a].bufferView + 1])
           IN  \A e \in 0 .. 3 * gltf.accessors[a].count - 1 :
                 ReadFloat(bytes, e) = 0

\* C27: while a triangle is stored, and when it has been, the index buffer
\* holds at the triangle's three places the vertices the solver uses for it,
\* duplicates included (numVertices + position in extraVertices), also in
\* a 16-bit index buffer.
C27_IndexBufferHoldsDuplicate ==
  pc \in { "retry", "stored" } =>
    \A k \in 1 .. 3 :
      ReadIndex(loadResources, TriangleIndices, frame.i + k - 1) = frame.idx[k]

\* the bytes seen through buffer view v (from 1) of a document
ViewBytes(document, resources, v) ==
  LET bytes == getBuffer(resources, document.bufferViews[v])
  IN  [o \in 0 .. document.bufferViews[v].byteLength - 1 |-> ByteAt(bytes, o)]

\* C28: a turn of the compaction loop leaves the bytes seen through every
\* buffer view of the buffer it works on as they were before the turn, and
\* so the triangle indices addOutline has rewritten.
C28_CompactionPreservesContent ==
  [][(pc = "compact" /\ run'.i = run.i + 1) =>
       \A v \in ViewsIn(gltf, run.i + 1) :
         /\ gltf'.bufferViews[v].buffer = run.i
         /\ ViewBytes(gltf', loadResources', v)
              = ViewBytes(gltf, loadResources, v)]_vars

\* the loaded buffer has been rewritten, and it holds triangle indices that
\* addOutline has rewritten
C28_Witness ==
  /\ pc = "done"
  /\ gltf.buffers[1].byteLength < loaded.gltf.buffers[1].byteLength
  /\ \E p \in Processed :
       LET indices == gltf.primitives[p + 1].indices
       IN  /\ gltf.bufferViews[gltf.accessors[indices + 1].bufferView + 1].buffer
                = 0
           /\ ReadIndices(loadResources, IndexView(gltf, indices))
                # ReadIndices(loaded.loadResources,
                              IndexView(loaded.gltf, indices))

\* C29: when outlinePrimitives is done, the _OUTLINE_COORDINATES accessor of
\* a processed primitive has the count of each of the primitive's other
\* attribute accessors.
C29_OutlineCountIsVertexCount ==
  pc = "done" =>
    \A p \in Processed :
      LET attributes == gltf.primitives[p + 1].attributes
          outline == AttributeAccessor(gltf, p, "_OUTLINE_COORDINATES")
      IN  /\ outline # Undefined
          /\ \A k \in 1 .. Len(attributes) :
               gltf.accessors[attributes[k].accessor + 1].count
                 = gltf.accessors[outline + 1].count

(***************************************************************************)
(* Properties of computeOrderMask (MaskSpec).                              *)
(***************************************************************************)
\* ordering k names, slot by slot, the coordinate the slot holds
Ordering(k) ==
  CASE k = 0 -> << "a", "b", "c" >>
    [] k = 1 -> << "a", "c", "b" >>
    [] k = 2 -> << "b", "a", "c" >>
    [] k = 3 -> << "b", "c", "a" >>
    [] k = 4 -> << "c", "a", "b" >>
    [] OTHER -> << "c", "b", "a" >>

\* the wanted coordinates laid out in ordering k are the stored ones
Reproduces(k) ==
  \A slot \in 0 .. 2 :
    scopes[1].outlineCoordinates[3 * run.vertexIndex + slot]
      = run[Ordering(k)[slot + 1]]

\* C23: computeOrderMask returns 63 for a vertex without stored coordinates;
\* otherwise bit k of what it returns is set if and only if the wanted
\* (a, b, c), laid out in ordering k, are the stored slot values, and no
\* other bit is set.
C23_MaskMeaning ==
  run.returned =>
    IF scopes[1].outlineCoordinates = << >>
      THEN run.mask = 63
      ELSE /\ run.mask \in 0 .. 63
           /\ \A k \in 0 .. 5 : (Bit(run.mask, k) = 1) <=> Reproduces(k)

C23_Witness ==
  /\ run.returned
  /\ scopes[1].outlineCoordinates # << >>
  /\ run.vertexIndex > 0
  /\ Bit(run.mask, 3) = 1
  /\ Bit(run.mask, 4) = 0

(***************************************************************************)
(* Properties of MapboxStyleImageryProvider (MapboxSpec).                  *)
(***************************************************************************)
\* the template url ends with the @2x suffix
EndsWith2x(templateUrl) ==
  templateUrl # << >> /\ templateUrl[Len(templateUrl)] = "@2x"

\* C22: the template url of a constructed provider ends with "@2x" when
\* options.scaleFactor is true, and has no such suffix when
\* options.scaleFactor is false or left out.
C22_ScaleFactorDecides ==
  provider.constructed =>
    (EndsWith2x(provider.templateUrl)
       <=> (defined(options, "scaleFactor") /\ options["scaleFactor"]))

(***************************************************************************)
(* Properties of addOutline called again (RerunSpec).                      *)
(***************************************************************************)
\* the call that has just returned was a second call on the same primitive
Rerun == pc = "done" /\ run.calls = MaxRuns

\* C18: a second call of addOutline against the same scope, on the index
\* buffer the first call left and the same edges, appends nothing to
\* extraVertices and rewrites no triangle index.
C18_RerunIdempotent ==
  Rerun =>
    /\ scopes[1].extraVertices = hist.scope.extraVertices
    /\ run.triangleIndices = hist.triangleIndices

\* the first call of addOutline has returned, and it was given a fresh scope,
\* the triangles (0,1,2) and (1,3,2) and the one edge (1,2)
Scenario19 ==
  /\ pc = "done"
  /\ run.calls = 1
  /\ hist.triangleIndices = << << 0, 1, 2 >>, << 1, 3, 2 >> >>
  /\ frame.edges = << << 1, 2 >> >>

\* C19 as stated: in the scenario exactly one duplicate is made, of vertex 2,
\* and one of the two triangles has its reference to vertex 2 rewritten to
\* numVertices + 0.
C19_AsStated ==
  Scenario19 =>
    /\ scopes[1].extraVertices = << 2 >>
    /\ \E k \in 1 .. 2 :
         run.triangleIndices =
           [hist.triangleIndices EXCEPT ![k][3] = frame.numVertices + 0]

\* C19: in the scenario no duplicate is made and no index is rewritten: the
\* two triangles agree on the shared edge, which one slot of the stored
\* coordinates shows (1 at vertices 1 and 2, 0 at vertices 0 and 3).
C19_NoDuplication ==
  Scenario19 =>
    /\ scopes[1].extraVertices = << >>
    /\ scopes[1].vertexCopies = << >>
    /\ run.triangleIndices = hist.triangleIndices
    /\ \E slot \in 0 .. 2 :
         LET oc == scopes[1].outlineCoordinates
         IN  /\ oc[3 * 1 + slot] = 1
             /\ oc[3 * 2 + slot] = 1
             /\ oc[3 * 0 + slot] = 0
             /\ oc[3 * 3 + slot] = 0

C19_Witness ==
  /\ Scenario19
  /\ \A v \in 0 .. 3 : Committed(scopes[1].outlineCoordinates, v)

(***************************************************************************)
(* Properties of the solver (SolverSpec, SolverFairSpec).                  *)
(***************************************************************************)
SolverScope == scopes[1]

\* the triple a vertex of the triangle desires: v0 (has20, has01, 0),
\* v1 (0, has01, has12), v2 (has20, 0, has12)
Desired(p, has01, has12, has20) ==
  IF p = 1 THEN << B2N(has20), B2N(has01), 0 >>
  ELSE IF p = 2 THEN << 0, B2N(has01), B2N(has12) >>
  ELSE << B2N(has20), 0, B2N(has12) >>

\* the number of set bits of the mask of the triangle's p-th vertex, for the
\* call whose arguments the frame holds
FrameBits(p) ==
  LET d == Desired(p, frame.has01, frame.has12, frame.has20)
      m == computeOrderMask(SolverScope.outlineCoordinates, frame.idx[p],
                            d[1], d[2], d[3])
  IN  Cardinality({ k \in 0 .. 5 : Bit(m, k) = 1 })

FewestBits ==
  CHOOSE n \in { FrameBits(p) : p \in 1 .. 3 } :
    \A q \in 1 .. 3 : n <= FrameBits(q)

EarliestFewest ==
  CHOOSE p \in 1 .. 3 :
    /\ FrameBits(p) = FewestBits
    /\ \A q \in 1 .. 3 : FrameBits(q) = FewestBits => p <= q

LatestFewest ==
  CHOOSE p \in 1 .. 3 :
    /\ FrameBits(p) = FewestBits
    /\ \A q \in 1 .. 3 : FrameBits(q) = FewestBits => q <= p

\* C2: the copy-and-retry loop of addOutline always ends: from every state in
\* which a triangle could not be stored, the triangle is eventually stored.
C2_RetryLoopTerminates == (pc = "retry") ~> (pc = "stored")

\* the loop ran at least twice for one triangle and ended
C2_Witness == pc = "stored" /\ hist.retries >= 2

CommittedKept(before, after) ==
  \A k \in DOMAIN before : k \in DOMAIN after /\ after[k] = before[k]

\* C3: no matchAndStoreCoordinates call, stored or failed, changes a slot of
\* outlineCoordinates that held a value before the call.
C3_CommittedNeverAltered ==
  [][CommittedKept(scopes[1].outlineCoordinates,
                   scopes'[1].outlineCoordinates)]_vars

\* a triangle with committed vertices was stored after a copy
C3_Witness == pc = "stored" /\ hist.pinned >= 1 /\ hist.retries >= 1

\* C8 as stated: the reported vertex has the fewest set bits, ties going to the
\* earliest of v0, v1, v2.
C8_AsStated ==
  pc = "retry" => frame.unmatchableVertexIndex = frame.idx[EarliestFewest]

\* C8, amended: the reported vertex has the fewest set bits; when a mask is
\* zero it is the earliest vertex with a zero mask, and otherwise, among the
\* vertices that tie for the fewest, the latest of v0, v1, v2.
C8_TieBreak ==
  pc = "retry" =>
    frame.unmatchableVertexIndex =
      frame.idx[IF FewestBits = 0 THEN EarliestFewest ELSE LatestFewest]

\* a failed store of three different vertices, no mask zero, v0 and v1 tied
C8_Witness ==
  /\ pc = "retry"
  /\ FewestBits > 0
  /\ FrameBits(1) = FewestBits /\ FrameBits(2) = FewestBits
  /\ Cardinality({ frame.idx[p] : p \in 1 .. 3 }) = 3

\* C9 as stated: the retries of a triangle are at most the number of its
\* vertices that had committed coordinates when it was first tried, so at most 3.
C9_AsStated == hist.retries <= hist.pinned /\ hist.retries <= 3

\* C9, amended: the retries of a triangle are at most the number of committed
\* vertices on the copy chains (the vertex, its copy, the copy's copy, ...) of
\* its three vertices when it was first tried.
C9_RetryBound == hist.retries <= hist.chainPinned

\* a triangle stored after as many retries as its chains held committed
\* vertices, more than it had committed vertices of its own
C9_Witness ==
  /\ pc = "stored"
  /\ hist.retries = hist.chainPinned
  /\ hist.retries > hist.pinned

\* C10 as stated: no original occurs twice in extraVertices, and no duplicate
\* has a vertexCopies entry of its own.
C10_AsStated ==
  LET ev == SolverScope.extraVertices
  IN  /\ \A i, j \in 1 .. Len(ev) : i # j => ev[i] # ev[j]
      /\ \A v \in DOMAIN SolverScope.vertexCopies : v < frame.numVertices

\* C10, amended: every vertex, original or duplicate, is copied directly at
\* most once: vertexCopies has one entry per duplicate created, the entries name
\* the duplicates numVertices .. numVertices + #extraVertices - 1 one each, and
\* every entry of extraVertices is an original.
C10_DirectCopies ==
  LET ev == SolverScope.extraVertices
      vc == SolverScope.vertexCopies
      n == frame.numVertices
  IN  /\ Cardinality(DOMAIN vc) = Len(ev)
      /\ { vc[v] : v \in DOMAIN vc } = n .. (n + Len(ev) - 1)
      /\ \A j \in 1 .. Len(ev) : ev[j] < n

\* a duplicate has been copied in its turn
C10_Witness ==
  /\ pc = "stored"
  /\ \E v \in DOMAIN SolverScope.vertexCopies : v >= frame.numVertices

\* a triangle is being stored whose three vertices had no coordinates when
\* the loop's turn began
FreshTriangle == pc \in { "retry", "stored" } /\ hist.pinned = 0

\* C20: a triangle whose three vertices have no stored coordinates is stored
\* by the first matchAndStoreCoordinates call, whatever has01, has12 and
\* has20 are: the call returns -1, the retry loop makes no turn (no vertex is
\* copied, no index rewritten) and the three vertices have coordinates.
C20_FreshTriangleStored ==
  FreshTriangle =>
    /\ pc = "stored"
    /\ frame.unmatchableVertexIndex = -1
    /\ hist.retries = 0
    /\ \A k \in 1 .. 3 : Committed(scopes[1].outlineCoordinates, frame.idx[k])

C20_Witness ==
  /\ FreshTriangle
  /\ pc = "stored"
  /\ frame.has01 /\ ~frame.has12 /\ frame.has20

\* the step holds a call of matchAndStoreCoordinates: the first one for a
\* triangle, or the one that ends a turn of the retry loop
MatchCalled ==
  pc \in { "triangles", "retry" } /\ pc' \in { "retry", "stored" }

\* the coordinates (a, b, c) wanted for the vertex at position j of a triangle
Wanted(j, has01, has12, has20) ==
  CASE j = 1 -> [a |-> B2N(has20), b |-> B2N(has01), c |-> 0]
    [] j = 2 -> [a |-> 0, b |-> B2N(has01), c |-> B2N(has12)]
    [] OTHER -> [a |-> B2N(has20), b |-> 0, c |-> B2N(has12)]

\* the last position of the triangle that names vertex v, 0 if none does
LastPosition(idx, v) ==
  IF idx[3] = v THEN 3 ELSE IF idx[2] = v THEN 2 ELSE IF idx[1] = v THEN 1 ELSE 0

\* C24: a call of matchAndStoreCoordinates stores the triangle exactly when
\* the AND of the three vertices' masks is not 0: it then returns -1 and every
\* vertex of the triangle holds its wanted coordinates in the lowest ordering
\* of the AND, all other slots being as before; otherwise it returns one of
\* the three vertices and outlineCoordinates is as before.
C24_StoredIffCommonOrdering ==
  [][MatchCalled =>
       LET oc == scopes[1].outlineCoordinates
           after == scopes'[1].outlineCoordinates
           idx == frame'.idx
           ret == frame'.unmatchableVertexIndex
           want(j) == Wanted(j, frame'.has01, frame'.has12, frame'.has20)
           mask(j) == computeOrderMask(oc, idx[j], want(j).a, want(j).b,
                                       want(j).c)
           common == BitAnd(BitAnd(mask(1), mask(2)), mask(3))
       IN  IF common # 0
             THEN LET k == CHOOSE o \in 0 .. 5 :
                             /\ Bit(common, o) = 1
                             /\ \A lower \in 0 .. o - 1 : Bit(common, lower) = 0
                  IN  /\ ret = -1
                      /\ \A j \in 1 .. 3, slot \in 0 .. 2 :
                           after[3 * idx[j] + slot]
                             = want(LastPosition(idx, idx[j]))[Ordering(k)[slot + 1]]
                      /\ \A o \in DOMAIN after :
                           LastPosition(idx, o \div 3) = 0 =>
                             o \in DOMAIN oc /\ after[o] = oc[o]
                      /\ DOMAIN oc \subseteq DOMAIN after
             ELSE /\ ret \in { idx[1], idx[2], idx[3] }
                  /\ after = oc]_vars

C24_Witness ==
  /\ pc = "stored"
  /\ hist.pinned = 3
  /\ hist.retries = 0
  /\ frame.has12

\* C25: in every state of a scope, the three outlineCoordinates slots of a
\* vertex, original or copy, are all set or all unset.
C25_SlotsSetTogether ==
  \A o \in DOMAIN scopes[1].outlineCoordinates :
    \A slot \in 0 .. 2 :
      (3 * (o \div 3) + slot) \in DOMAIN scopes[1].outlineCoordinates

C25_Witness ==
  /\ pc = "stored"
  /\ scopes[1].extraVertices # << >>
  /\ Committed(scopes[1].outlineCoordinates, frame.numVertices)
  /\ \E v \in 0 .. frame.numVertices - 1 :
       ~Committed(scopes[1].outlineCoordinates, v)

\* the original vertex at the start of the lineage of vertex v: v itself when
\* it is an original, else the origin of the vertex v was created as a copy of
RECURSIVE Origin(_, _, _)
Origin(vertexCopies, numVertices, v) ==
  IF v < numVertices THEN v
  ELSE Origin(vertexCopies, numVertices,
              CHOOSE u \in DOMAIN vertexCopies : vertexCopies[u] = v)

\* C26: in every state of the scope, duplicate number j (from 0) is vertex
\* numVertices + j and was created for exactly one vertex, every entry of
\* extraVertices is an original vertex, and extraVertices[j] is the original
\* at the start of the lineage of the vertex that duplicate was created for.
C26_DuplicateBookkeeping ==
  LET ev == SolverScope.extraVertices
      vc == SolverScope.vertexCopies
      n == frame.numVertices
  IN  /\ \A v \in DOMAIN vc : vc[v] \in n .. (n + Len(ev) - 1)
      /\ \A j \in 0 .. Len(ev) - 1 :
           /\ ev[j + 1] \in 0 .. n - 1
           /\ Cardinality({ v \in DOMAIN vc : vc[v] = n + j }) = 1
           /\ \A v \in DOMAIN vc :
                vc[v] = n + j => ev[j + 1] = Origin(vc, n, v)

C26_Witness ==
  /\ pc = "triangles"
  /\ Len(SolverScope.extraVertices) >= 3
  /\ \E v \in DOMAIN SolverScope.vertexCopies :
       /\ v >= frame.numVertices
       /\ Origin(SolverScope.vertexCopies, frame.numVertices, v) > 0

====
